---- MODULE Spec2Model ----
(***************************************************************************)
(* Deduplicated upload reconciliation of upload_imagegrid.                 *)
(*                                                                         *)
(* Two batch workflows share the ledger (ImageUploadTracker), the upload   *)
(* service client (ImageGridService) and the feature service client        *)
(* (ArcGISService):                                                        *)
(*   wf = "topp": ToppbefaringUploader  (src/uploadByObjektnumber.py)      *)
(*   wf = "dist": DistribusjonUploader  (src/upload_distribusjon_fra_      *)
(*                folder.py)                                               *)
(* One action models one block of a handler; `pc` is the position in the   *)
(* handler, `att` the handler's local variables for the file in progress.  *)
(* Answers of the two remote services are inputs drawn with \E; the upload *)
(* service keeps the set `images` of content hashes it stores and answers  *)
(* a search by hash from that set.                                         *)
(***************************************************************************)
EXTENDS Integers, Sequences, FiniteSets, TLC

VARIABLES
    fn,           \* a function of the services under study on its own: its
                  \* name, its input and, once applied, its result
    credentials,  \* which services have their credentials configured
    wf,           \* which uploader runs: "topp" | "dist"
    find_mast,    \* the find_mast argument of upload_from_folder (topp)
    image_files,  \* the folder listing: a sequence of files
    ledger,       \* rows of the tracking CSV, in file order
    images,       \* content hashes the upload service stores
    posts,        \* per content hash: upload POST requests sent so far
    run,          \* number of the batch run in progress
    idx,          \* 1-based position in image_files of the loop
    base_attributes, \* dist: what find_nettstasjon returned for the folder
    pc,           \* position in the code
    att           \* locals of the attempt in progress

\* the variables of the batch workflows
sysvars == <<credentials, wf, find_mast, image_files, ledger, images, posts,
             run, idx, base_attributes, pc, att>>

vars == <<fn, sysvars>>

----------------------------------------------------------------------------
(* Bounds of the model.                                                    *)

\* batch runs over the same folder
MaxRuns == 2

\* files in the folder
NumFiles == 2

Hashes == {"h1", "h2"}

FileNames == <<"1-a.jpg", "2-b.jpg", "3-c.jpg">>

----------------------------------------------------------------------------
(* ImageUploadTracker                                                      *)

get_columns ==
    <<"filename", "Location", "objektnummer", "linje_navn", "linje_id",
      "driftsmerking", "erHistorisk", "kilde", "anleggstype", "filehash",
      "uploadtime", "updatetime", "status">>

\* position of a column of the CSV
Col(name) == CHOOSE i \in 1..Len(get_columns) : get_columns[i] = name

\* variant of has_been_uploaded that counts only rows with status "ok"
has_been_uploaded_ok_rows(rows, filehash) ==
    \E i \in 1..Len(rows) :
        /\ rows[i][Col("filehash")] = filehash
        /\ rows[i][Col("status")] = "ok"

\* has_been_uploaded: any row whose filehash column equals the hash, whatever
\* its status
has_been_uploaded(rows, filehash) ==
    \E i \in 1..Len(rows) : rows[i][Col("filehash")] = filehash

\* pd.DataFrame([data], columns=df.columns) raises ValueError unless the row has
\* one value per column
log_upload_raises(data) == Len(data) # Len(get_columns)

\* log_upload: the previous rows followed by the new row
log_upload(rows, data) == Append(rows, data)

----------------------------------------------------------------------------
(* ImageGridService                                                        *)

\* what GET .../search?key=filehash&value=<hash> can answer: the service
\* answers from the images it stores; the record it returns may lack "id";
\* status 500 stands for every other status and for a failed request
SearchResponses(h) ==
    (IF h \in images
        THEN {[status |-> 200, results |-> "rec_id"],
              [status |-> 200, results |-> "rec_noid"]}
        ELSE {[status |-> 200, results |-> "empty"],
              [status |-> 404, results |-> "empty"]})
    \cup {[status |-> 500, results |-> "empty"]}

\* variant of check_image_exists that reports every answered search as
\* "not found"
check_image_exists_never_found(resp) ==
    IF resp.status \in {200, 404} THEN "False" ELSE "raise"

\* variant of check_image_exists that reports every answered search as
\* "found", with an id
check_image_exists_always_found(resp) ==
    IF resp.status \in {200, 404} THEN "rec_id" ELSE "raise"

\* check_image_exists: the first result, False, or an exception ("raise")
check_image_exists(resp) ==
    IF resp.status = 200
        THEN (IF resp.results = "empty" THEN "False" ELSE resp.results)
        ELSE IF resp.status = 404 THEN "False" ELSE "raise"

\* the 'id' of a search result or of an upload response, for content hash h
get_id(rec, h) == IF rec = "rec_id" THEN h ELSE "None"

\* what POST .../upload can answer: 200 with a body holding an id, lacking
\* an id, or empty; anything else is an error
PostResponses ==
    {[status |-> 200, body |-> "rec_id"],
     [status |-> 200, body |-> "rec_noid"],
     [status |-> 200, body |-> "empty"],
     [status |-> 500, body |-> "empty"]}

\* upload_image: the value returned ("None", a record, or "raise"), whether
\* the POST was sent, given is_image_file, the search answer and the POST
\* answer
upload_image(valid, sresp, presp) ==
    IF ~valid THEN [ret |-> "None", posted |-> FALSE]
    ELSE IF check_image_exists(sresp) = "raise"
        THEN [ret |-> "raise", posted |-> FALSE]
    ELSE IF check_image_exists(sresp) # "False"
        THEN [ret |-> check_image_exists(sresp), posted |-> FALSE]
    ELSE IF presp.status = 200
        THEN [ret |-> presp.body, posted |-> TRUE]
        ELSE [ret |-> "raise", posted |-> TRUE]

\* Python truthiness of what upload_image returned
Truthy(ret) == ret \notin {"None", "empty", "False"}

\* update_image_info: the parsed response, "Update failed", or an exception
UpdateResults == {"ok", "Update failed", "raise"}

----------------------------------------------------------------------------
(* ArcGISService                                                           *)

NoFeature == [ID |-> "None", geometry |-> "None"]

\* features the ID query can return: geometry present, null, or key absent
ByIdFeatures == [ID : {"m1"}, geometry : {"xy", "null", "nokey"}]

\* features the within-radius query can return
NearFeatures == [ID : {"m2"}, geometry : {"xy", "null"}]

EmptyAttributes == [id |-> "", geometry |-> ""]

\* what _make_authenticated_request can do for a query: return a body with
\* the features, return a body without a 'features' key (an error document),
\* or raise (network, authentication or HTTP failure)
QueryAnswers(featureLists) ==
    [kind : {"features"}, features : featureLists]
        \cup [kind : {"no_key", "failure"}, features : {<<>>}]

\* the outcomes of a query given the configuration: without ARCGIS_USERNAME
\* or ARCGIS_PASSWORD get_access_token raises ValueError on every request
ArcgisAnswers(featureLists) ==
    IF credentials.arcgis
        THEN QueryAnswers(featureLists)
        ELSE [kind : {"failure"}, features : {<<>>}]

\* the request of the query failed
QueryFailed(answer) == answer.kind = "failure"

\* get_mast_data: the features of the answer; [] when the body has no
\* 'features' key and [] when the request raised (the except block)
get_mast_data(answer) ==
    IF answer.kind = "features" THEN answer.features ELSE <<>>

\* get_mast_data_near_point: the same for the within-radius query
get_mast_data_near_point(answer) ==
    IF answer.kind = "features" THEN answer.features ELSE <<>>

\* get_mast_by_id: the first feature of the answer, or None
get_mast_by_id(features) ==
    IF Len(features) > 0 THEN features[1] ELSE NoFeature

\* variant of find_nearest_mast that does not look at the geometry
find_nearest_mast_any_geometry(gps, features) ==
    IF ~gps \/ Len(features) = 0 THEN NoFeature ELSE features[1]

\* find_nearest_mast: among the features that have a geometry the nearest;
\* None without coordinates or without such a feature
find_nearest_mast(gps, features) ==
    IF ~gps THEN NoFeature
    ELSE IF \E i \in 1..Len(features) : features[i].geometry = "xy"
        THEN features[CHOOSE i \in 1..Len(features) :
                        /\ features[i].geometry = "xy"
                        /\ \A j \in 1..(i-1) : features[j].geometry # "xy"]
        ELSE NoFeature

\* get_mast_attributes raises KeyError when the feature has no geometry key
get_mast_attributes_raises(f) == f # NoFeature /\ f.geometry = "nokey"

\* variant of get_mast_attributes with the geometry test inverted
get_mast_attributes_inverted(f) ==
    IF f = NoFeature \/ f.geometry = "xy"
        THEN EmptyAttributes
        ELSE [id |-> f.ID, geometry |-> f.geometry]

\* get_mast_attributes: {} for no feature or a falsy geometry, else the
\* non-null attributes
get_mast_attributes(f) ==
    IF f = NoFeature \/ f.geometry # "xy"
        THEN EmptyAttributes
        ELSE [id |-> f.ID, geometry |-> f.geometry]

----------------------------------------------------------------------------
(* State                                                                   *)

Files ==
    [name : {FileNames[i] : i \in 1..Len(FileNames)}, filehash : Hashes,
     gps : BOOLEAN, readable : {TRUE}]
    \cup [name : {FileNames[i] : i \in 1..Len(FileNames)},
          filehash : {"None"}, gps : {FALSE}, readable : {FALSE}]

\* calculate_file_hash raises when the file cannot be opened or read
calculate_file_hash_raises(file) == ~file.readable

\* a folder: NumFiles files with distinct names; two files may hold the same
\* bytes (a renamed copy); a file may or may not carry usable GPS tags; a
\* listed file may be unreadable
Listings ==
    {l \in [1..NumFiles -> Files] :
        /\ \A i \in 1..NumFiles : l[i].name = FileNames[i]
        /\ l[1].filehash \in {"h1", "None"}}

NoAttempt ==
    [file_hash |-> "None", exist_in_imagegrid |-> "None", gps |-> FALSE,
     attributes |-> NoFeature, mast_attributes |-> EmptyAttributes,
     image_id |-> "None", status |-> "None", upload_result |-> "None",
     update_result |-> "None", objektnummer |-> "None", calls |-> <<>>,
     rows0 |-> 0, query_failed |-> FALSE,
     outcome |-> "None", result |-> "None", counted |-> "None"]

\* no function is studied on its own
NoCall == [op |-> "none"]

Init ==
    /\ fn = NoCall
    /\ credentials \in [imagegrid : BOOLEAN, arcgis : BOOLEAN]
    /\ wf \in {"topp", "dist", "sync"}
    \* only the pole workflow's upload_from_folder takes find_mast
    /\ find_mast \in (IF wf = "topp" THEN BOOLEAN ELSE {FALSE})
    /\ image_files \in Listings
    /\ ledger = <<>>
    /\ images = {}
    /\ posts = [h \in Hashes |-> 0]
    /\ run = 0
    /\ idx = 0
    /\ base_attributes = "None"
    /\ pc = IF credentials.imagegrid THEN "start" ELSE "config_error"
    /\ att = NoAttempt

\* datetime.now(), to the resolution the model keeps: the run in progress
now == run

\* one more call in the attempt's order of calls
Called(a, name) == [a EXCEPT !.calls = Append(@, name)]

\* the handler returns `result`; `outcome` names the return statement taken
Return(a, outcome, result) ==
    [a EXCEPT !.outcome = outcome, !.result = result]

----------------------------------------------------------------------------
(* ToppbefaringUploader.upload_from_folder and upload_toppbefaring_image   *)

\* ArcGISService.transform_utm_to_gps on a point named by where it comes
\* from: the asset's UTM position becomes its WGS84 position; the photo's
\* degrees are read as metres and converted all the same; (None, None)
\* makes the transformer raise, which is caught and gives (None, None)
transform_utm_to_gps_point(p) ==
    CASE p = "None" -> "None"
      [] p = "asset_utm" -> "asset_wgs84"
      [] OTHER -> "photo_converted"

\* mast_attributes.get('geometry', {}).get('x', longitude), same for y
geometry_or(mast_attributes, p) ==
    IF mast_attributes.geometry = "xy" THEN "asset_utm" ELSE p

\* "Location" of imageinfo (lines 140-154): the photo's point, converted at
\* line 141 when the photo has coordinates and again at line 150 in every
\* case, each time from the asset's geometry when there is one; None when
\* the result is falsy
LocationOf(gps, mast_attributes) ==
    LET p0 == IF gps THEN "photo" ELSE "None"
        p1 == IF gps
                 THEN transform_utm_to_gps_point(geometry_or(mast_attributes, p0))
                 ELSE p0
    IN  transform_utm_to_gps_point(geometry_or(mast_attributes, p1))

\* log_data of the success path (lines 175-189)
ToppLogData(file, a) ==
    <<file.name, LocationOf(a.gps, a.mast_attributes), a.objektnummer,
      "", a.mast_attributes.id, a.mast_attributes.id, "False", "kilde", "MS",
      a.file_hash, now, now,
      IF a.exist_in_imagegrid # "False" THEN a.status ELSE "ok">>

\* log_data of the no-nearby-mast return (lines 77-91)
ToppNoMastData(file, a) ==
    <<file.name, "None", "None", "None", "None", "None", "None", "None",
      "None", a.file_hash, now, now, "No nearby mast found">>

\* failed_data of the exception handler (lines 204-218)
ToppFailedData(file, file_hash) ==
    <<file.name, "None", "None", "None", "None", "None", "None", "None",
      "None", file_hash, now, now, "failed">>

\* lines 225-247: the folder is listed and the loop starts
T_FolderStart ==
    /\ wf = "topp"
    /\ pc \in {"start", "finished", "aborted"}
    /\ run < MaxRuns
    /\ run' = run + 1
    /\ idx' = 1
    /\ pc' = "loop"
    /\ att' = NoAttempt
    /\ UNCHANGED <<fn, credentials, wf, find_mast, image_files, ledger, images, posts,
                   base_attributes>>

\* lines 249-259: the next file of the listing is handed to the handler
T_LoopNext ==
    /\ wf = "topp"
    /\ pc = "loop"
    /\ idx <= Len(image_files)
    /\ att' = [NoAttempt EXCEPT !.rows0 = Len(ledger)]
    /\ pc' = "t_identify"
    /\ UNCHANGED <<fn, credentials, wf, find_mast, image_files, ledger, images, posts, run, idx,
                   base_attributes>>

\* lines 276-280: the listing is exhausted
T_LoopEnd ==
    /\ wf = "topp"
    /\ pc = "loop"
    /\ idx > Len(image_files)
    /\ pc' = "finished"
    /\ UNCHANGED <<fn, credentials, wf, find_mast, image_files, ledger, images, posts, run, idx,
                   base_attributes, att>>

\* line 45: the content hash of the file; when it raises, the except block
T_Identify ==
    /\ pc = "t_identify"
    /\ IF calculate_file_hash_raises(image_files[idx])
          THEN /\ att' = Called(att, "hash")
               /\ pc' = "t_except"
          ELSE /\ att' = [Called(att, "hash") EXCEPT
                            !.file_hash = image_files[idx].filehash]
               /\ pc' = "t_dedup"
    /\ UNCHANGED <<fn, credentials, wf, find_mast, image_files, ledger, images, posts, run, idx,
                   base_attributes>>

\* lines 48-51: the ledger lookup; a hit returns None
T_DedupCheck ==
    /\ pc = "t_dedup"
    /\ IF has_been_uploaded(ledger, att.file_hash)
          THEN /\ att' = Return(Called(att, "lookup"), "skipped", "None")
               /\ pc' = "t_return"
          ELSE /\ att' = Called(att, "lookup")
               /\ pc' = "t_exists"
    /\ UNCHANGED <<fn, credentials, wf, find_mast, image_files, ledger, images, posts, run, idx,
                   base_attributes>>

\* lines 53-55: the remote exists check
T_ExistsCheck ==
    /\ pc = "t_exists"
    /\ \E resp \in SearchResponses(att.file_hash) :
          IF check_image_exists(resp) = "raise"
             THEN /\ att' = Called(att, "exists")
                  /\ pc' = "t_except"
             ELSE /\ att' = [Called(att, "exists") EXCEPT
                               !.exist_in_imagegrid = check_image_exists(resp)]
                  /\ pc' = "t_gps"
    /\ UNCHANGED <<fn, credentials, wf, find_mast, image_files, ledger, images, posts, run, idx,
                   base_attributes>>

\* lines 59-63: the coordinates of the photo (get_gps_from_image never raises)
T_GpsExtract ==
    /\ pc = "t_gps"
    /\ att' = [Called(att, "gps") EXCEPT !.gps = image_files[idx].gps]
    /\ pc' = "t_byid"
    /\ UNCHANGED <<fn, credentials, wf, find_mast, image_files, ledger, images, posts, run, idx,
                   base_attributes>>

\* lines 65-67 and 94-95: the lookup by the number in the file name
T_MastById ==
    /\ pc = "t_byid"
    /\ \E answer \in ArcgisAnswers({<<>>} \cup {<<f>> : f \in ByIdFeatures}) :
          LET attributes == get_mast_by_id(get_mast_data(answer))
              a == [Called(att, "byid") EXCEPT
                      !.query_failed = QueryFailed(answer)]
          IN
          IF attributes = NoFeature
             THEN /\ att' = a
                  /\ pc' = "t_nearest"
             ELSE IF get_mast_attributes_raises(attributes)
                THEN /\ att' = [a EXCEPT !.attributes = attributes]
                     /\ pc' = "t_except"
                ELSE /\ att' = [a EXCEPT
                                  !.attributes = attributes,
                                  !.mast_attributes =
                                      get_mast_attributes(attributes)]
                     /\ pc' = "t_branch"
    /\ UNCHANGED <<fn, credentials, wf, find_mast, image_files, ledger, images, posts, run, idx,
                   base_attributes>>

\* lines 69-93: the nearest search, run only with find_mast and coordinates;
\* when it finds nothing the no-nearby-mast row is written and None returned
T_NearestMast ==
    /\ pc = "t_nearest"
    /\ IF find_mast /\ att.gps
          THEN \E answer \in
                     ArcgisAnswers({<<>>} \cup {<<f>> : f \in NearFeatures}) :
                  LET nearest_mast ==
                          find_nearest_mast(att.gps,
                                            get_mast_data_near_point(answer))
                      a == [Called(att, "nearest") EXCEPT
                              !.query_failed = @ \/ QueryFailed(answer)]
                  IN
                  IF nearest_mast # NoFeature
                     THEN /\ att' = [a EXCEPT
                                       !.mast_attributes =
                                           get_mast_attributes(nearest_mast)]
                          /\ pc' = "t_branch"
                          /\ UNCHANGED ledger
                     ELSE /\ ledger' = log_upload(ledger,
                                 ToppNoMastData(image_files[idx], att))
                          /\ att' = Return(Called(a, "log"),
                                           "no_mast", "None")
                          /\ pc' = "t_return"
          ELSE /\ pc' = "t_branch"
               /\ UNCHANGED <<att, ledger>>
    /\ UNCHANGED <<fn, credentials, wf, find_mast, image_files, images, posts, run, idx,
                   base_attributes>>

\* lines 97-104: an image found by the exists check is not transferred
T_ExistsBranch ==
    /\ pc = "t_branch"
    /\ IF att.exist_in_imagegrid # "False"
          THEN /\ att' = [att EXCEPT
                            !.image_id = get_id(att.exist_in_imagegrid,
                                                att.file_hash),
                            !.status =
                                IF get_id(att.exist_in_imagegrid,
                                          att.file_hash) # "None"
                                   THEN "updated_image" ELSE "exists_no_id"]
               /\ pc' = "t_idcheck"
          ELSE /\ att' = att
               /\ pc' = "t_transfer"
    /\ UNCHANGED <<fn, credentials, wf, find_mast, image_files, ledger, images, posts, run, idx,
                   base_attributes>>

\* lines 105-128: resize and transfer; a falsy result returns None
T_Transfer ==
    /\ pc = "t_transfer"
    /\ \E valid \in BOOLEAN, sresp \in SearchResponses(att.file_hash),
          presp \in PostResponses, stored \in BOOLEAN :
          LET r == upload_image(valid, sresp, presp)
              a == IF r.posted
                      THEN Called(Called(Called(att, "resize"),
                                         "upload_exists"), "post")
                      ELSE Called(Called(att, "resize"), "upload_exists")
          IN
          /\ posts' = IF r.posted
                         THEN [posts EXCEPT ![att.file_hash] = @ + 1]
                         ELSE posts
          /\ images' = IF r.posted /\ (presp.status = 200 \/ stored)
                          THEN images \cup {att.file_hash}
                          ELSE images
          /\ IF r.ret = "raise"
                THEN /\ att' = a
                     /\ pc' = "t_except"
                ELSE IF ~Truthy(r.ret)
                   THEN /\ att' = Return(a, "no_upload", "None")
                        /\ pc' = "t_return"
                   ELSE /\ att' = [a EXCEPT
                                     !.upload_result = r.ret,
                                     !.image_id = get_id(r.ret, att.file_hash),
                                     !.status = "new_image"]
                        /\ pc' = "t_idcheck"
    /\ UNCHANGED <<fn, credentials, wf, find_mast, image_files, ledger, run, idx,
                   base_attributes>>

\* variant of T_IdCheck that goes on to the metadata update whatever the id
T_IdCheck_always_update ==
    /\ pc = "t_idcheck"
    /\ att' = att
    /\ pc' = "t_update"
    /\ UNCHANGED <<fn, credentials, wf, find_mast, image_files, ledger, images, posts, run, idx,
                   base_attributes>>

\* lines 130-134: without an image id the handler returns None
T_IdCheck ==
    /\ pc = "t_idcheck"
    /\ IF att.image_id = "None"
          THEN /\ att' = Return(att, "no_id", "None")
               /\ pc' = "t_return"
          ELSE /\ att' = att
               /\ pc' = "t_update"
    /\ UNCHANGED <<fn, credentials, wf, find_mast, image_files, ledger, images, posts, run, idx,
                   base_attributes>>

\* lines 136-172: the metadata update; "Update failed" returns None
T_MetadataUpdate ==
    /\ pc = "t_update"
    /\ \E update_result \in UpdateResults :
          LET a == [Called(att, "update") EXCEPT
                      !.objektnummer = att.mast_attributes.id,
                      !.update_result = update_result]
          IN
          IF update_result = "raise"
             THEN /\ att' = a
                  /\ pc' = "t_except"
             ELSE IF update_result = "Update failed"
                THEN /\ att' = Return(a, "update_failed", "None")
                     /\ pc' = "t_return"
                ELSE /\ att' = a
                     /\ pc' = "t_log"
    /\ UNCHANGED <<fn, credentials, wf, find_mast, image_files, ledger, images, posts, run, idx,
                   base_attributes>>

\* variant of T_LedgerWrite that asks the upload service about the image
\* again after the row is written
T_LedgerWrite_then_exists ==
    /\ pc = "t_log"
    /\ ledger' = log_upload(ledger, ToppLogData(image_files[idx], att))
    /\ att' = Called(att, "log")
    /\ pc' = "t_exists"
    /\ UNCHANGED <<fn, credentials, wf, find_mast, image_files, images, posts, run, idx,
                   base_attributes>>

\* variant of T_LedgerWrite in which an exception follows the written row
T_LedgerWrite_then_except ==
    /\ pc = "t_log"
    /\ ledger' = log_upload(ledger, ToppLogData(image_files[idx], att))
    /\ att' = Called(att, "log")
    /\ pc' = "t_except"
    /\ UNCHANGED <<fn, credentials, wf, find_mast, image_files, images, posts, run, idx,
                   base_attributes>>

\* lines 174-195: the row of the success path; upload_result is returned
T_LedgerWrite ==
    /\ pc = "t_log"
    /\ ledger' = log_upload(ledger, ToppLogData(image_files[idx], att))
    /\ att' = Return(Called(att, "log"), "logged", att.upload_result)
    /\ pc' = "t_return"
    /\ UNCHANGED <<fn, credentials, wf, find_mast, image_files, images, posts, run, idx,
                   base_attributes>>

\* lines 197-223: any exception of the try block: the hash is computed again
\* and a failed row is written; None is returned
T_Except ==
    /\ pc = "t_except"
    /\ IF calculate_file_hash_raises(image_files[idx])
          THEN /\ att' = Return(Called(att, "hash"), "exception", "None")
               /\ UNCHANGED ledger
          ELSE /\ ledger' = log_upload(ledger,
                      ToppFailedData(image_files[idx],
                                     image_files[idx].filehash))
               /\ att' = Return(Called(Called(att, "hash"), "log"),
                                "exception", "None")
    /\ pc' = "t_return"
    /\ UNCHANGED <<fn, credentials, wf, find_mast, image_files, images, posts, run, idx,
                   base_attributes>>

\* lines 262-274: the counter incremented for a result: a None result is
\* "skipped" when the ledger, as it is after the attempt, has the file's
\* hash, else "failed"; any other result is "uploaded"
topp_counter(result, rows, file) ==
    IF result = "None"
       THEN IF has_been_uploaded(rows, file.filehash)
               THEN "skipped" ELSE "failed"
       ELSE "uploaded"

\* lines 262-274: the result is counted and the loop moves on; for a None
\* result the hash is computed again, outside any try: when that raises, the
\* exception leaves upload_from_folder
T_Count ==
    /\ pc = "t_return"
    /\ IF att.result = "None" /\ calculate_file_hash_raises(image_files[idx])
          THEN /\ pc' = "aborted"
               /\ UNCHANGED <<idx, att>>
          ELSE /\ idx' = idx + 1
               /\ pc' = "loop"
               /\ att' = [NoAttempt EXCEPT
                             !.rows0 = att.rows0,
                             !.file_hash = att.file_hash,
                             !.calls = att.calls,
                             !.outcome = att.outcome,
                             !.result = att.result,
                             !.counted = topp_counter(att.result, ledger,
                                                      image_files[idx])]
    /\ UNCHANGED <<fn, credentials, wf, find_mast, image_files, ledger, images, posts, run,
                   base_attributes>>

----------------------------------------------------------------------------
(* DistribusjonUploader.upload_from_folder and upload_distribusjon_image   *)

\* what the query by DRIFTSMERKING can answer
NettstasjonAnswers == {"feature", "no_feature", "error"}

\* find_nettstasjon: the first feature, or [] when there is none or the
\* request failed
find_nettstasjon(answer) == IF answer = "feature" THEN "feature" ELSE "[]"

\* ImageInfo.create_log_data (through create_nettstasjon_log_data) for the
\* imageinfo of create_nettstasjon_info: 15 values
DistLogData(file, a, status) ==
    <<file.name, file.name, "asset_wgs84", "", "n1", "", "", "n1", "", "kilde", "",
      a.file_hash, now, now, status>>

\* the same for imageinfo = dict(filename=..., hash=...): no 'filehash' key
DistFailedUploadData(file, status) ==
    <<file.name, file.name, "", "", "", "", "", "", "", "", "", "", now, now,
      status>>

\* ImageInfo.create_failed_log_data: 15 values
create_failed_log_data(file, filehash) ==
    <<file.name, file.name, "None", "None", "None", "None", "None", "None",
      "None", "kilde", "Nettstasjon", filehash, now, now, "failed">>

\* lines 194-226: the tracker of the folder, the station of the folder name,
\* the listing
D_FolderStart ==
    /\ wf = "dist"
    /\ pc \in {"start", "finished", "aborted"}
    /\ run < MaxRuns
    /\ \E answer \in (IF credentials.arcgis
                          THEN NettstasjonAnswers ELSE {"error"}) :
          base_attributes' = find_nettstasjon(answer)
    /\ run' = run + 1
    /\ idx' = 1
    /\ pc' = "loop"
    /\ att' = NoAttempt
    /\ UNCHANGED <<fn, credentials, wf, find_mast, image_files, ledger, images, posts>>

\* lines 228-242: hash and ledger lookup in the loop; a hit counts the file as
\* skipped and continues, else the handler is called; the hash is computed
\* outside any try: when it raises, the exception leaves upload_from_folder
D_LoopNext ==
    /\ wf = "dist"
    /\ pc = "loop"
    /\ idx <= Len(image_files)
    /\ LET a == [Called(Called(NoAttempt, "hash"), "lookup") EXCEPT
                   !.rows0 = Len(ledger),
                   !.file_hash = image_files[idx].filehash]
       IN IF calculate_file_hash_raises(image_files[idx])
             THEN /\ att' = Called(NoAttempt, "hash")
                  /\ idx' = idx
                  /\ pc' = "aborted"
          ELSE IF has_been_uploaded(ledger, image_files[idx].filehash)
             THEN /\ att' = [Return(a, "skipped", "None") EXCEPT
                                !.counted = "skipped"]
                  /\ idx' = idx + 1
                  /\ pc' = "loop"
             ELSE /\ att' = a
                  /\ idx' = idx
                  /\ pc' = "d_exists"
    /\ UNCHANGED <<fn, credentials, wf, find_mast, image_files, ledger, images, posts, run,
                   base_attributes>>

\* lines 260-266: the listing is exhausted
D_LoopEnd ==
    /\ wf = "dist"
    /\ pc = "loop"
    /\ idx > Len(image_files)
    /\ pc' = "finished"
    /\ UNCHANGED <<fn, credentials, wf, find_mast, image_files, ledger, images, posts, run, idx,
                   base_attributes, att>>

\* lines 64-72: the remote exists check and its branch
D_ExistsCheck ==
    /\ pc = "d_exists"
    /\ \E resp \in SearchResponses(att.file_hash) :
          LET exist == check_image_exists(resp) IN
          IF exist = "raise"
             THEN /\ att' = Called(att, "exists")
                  /\ pc' = "d_except"
             ELSE IF exist # "False"
                THEN /\ att' = [Called(att, "exists") EXCEPT
                                  !.exist_in_imagegrid = exist,
                                  !.image_id = get_id(exist, att.file_hash),
                                  !.status =
                                      IF get_id(exist, att.file_hash) # "None"
                                         THEN "updated_image"
                                         ELSE "exists_no_id"]
                     /\ pc' = "d_idcheck"
                ELSE /\ att' = [Called(att, "exists") EXCEPT
                                  !.exist_in_imagegrid = exist]
                     /\ pc' = "d_transfer"
    /\ UNCHANGED <<fn, credentials, wf, find_mast, image_files, ledger, images, posts, run, idx,
                   base_attributes>>

\* lines 74-105: resize and transfer; a falsy result is logged as
\* failed_upload and that status returned
D_Transfer ==
    /\ pc = "d_transfer"
    /\ \E valid \in BOOLEAN, sresp \in SearchResponses(att.file_hash),
          presp \in PostResponses, stored \in BOOLEAN :
          LET r == upload_image(valid, sresp, presp)
              a == IF r.posted
                      THEN Called(Called(Called(att, "resize"),
                                         "upload_exists"), "post")
                      ELSE Called(Called(att, "resize"), "upload_exists")
              log_data == DistFailedUploadData(image_files[idx],
                                               "failed_upload")
          IN
          /\ posts' = IF r.posted
                         THEN [posts EXCEPT ![att.file_hash] = @ + 1]
                         ELSE posts
          /\ images' = IF r.posted /\ (presp.status = 200 \/ stored)
                          THEN images \cup {att.file_hash}
                          ELSE images
          /\ IF r.ret = "raise"
                THEN /\ att' = a
                     /\ pc' = "d_except"
                     /\ UNCHANGED ledger
                ELSE IF ~Truthy(r.ret)
                   THEN IF log_upload_raises(log_data)
                           THEN /\ att' = [a EXCEPT !.status = "failed_upload"]
                                /\ pc' = "d_except"
                                /\ UNCHANGED ledger
                           ELSE /\ ledger' = log_upload(ledger, log_data)
                                /\ att' = Return(
                                      [Called(a, "log") EXCEPT
                                         !.status = "failed_upload"],
                                      "no_upload", "failed_upload")
                                /\ pc' = "d_return"
                   ELSE /\ att' = [a EXCEPT
                                     !.upload_result = r.ret,
                                     !.image_id = get_id(r.ret, att.file_hash),
                                     !.status = "new_image"]
                        /\ pc' = "d_idcheck"
                        /\ UNCHANGED ledger
    /\ UNCHANGED <<fn, credentials, wf, find_mast, image_files, run, idx, base_attributes>>

\* lines 107-111: without an image id the handler returns None
D_IdCheck ==
    /\ pc = "d_idcheck"
    /\ IF att.image_id = "None"
          THEN /\ att' = Return(att, "no_id", "None")
               /\ pc' = "d_return"
          ELSE /\ att' = att
               /\ pc' = "d_update"
    /\ UNCHANGED <<fn, credentials, wf, find_mast, image_files, ledger, images, posts, run, idx,
                   base_attributes>>

\* lines 114-153: base_attributes.get raises on the [] of find_nettstasjon;
\* else the metadata update, whose reported failure sets status failed_update
D_MetadataUpdate ==
    /\ pc = "d_update"
    /\ IF base_attributes = "[]"
          THEN /\ att' = att
               /\ pc' = "d_except"
          ELSE \E update_result \in UpdateResults :
                  IF update_result = "raise"
                     THEN /\ att' = [Called(att, "update") EXCEPT
                                       !.objektnummer = "n1",
                                       !.update_result = update_result]
                          /\ pc' = "d_except"
                     ELSE /\ att' = [Called(att, "update") EXCEPT
                                       !.objektnummer = "n1",
                                       !.update_result = update_result,
                                       !.status =
                                           IF update_result = "Update failed"
                                              THEN "failed_update" ELSE @,
                                       !.upload_result =
                                           IF update_result # "Update failed"
                                              /\ att.exist_in_imagegrid # "False"
                                              THEN att.status ELSE @]
                          /\ pc' = "d_log"
    /\ UNCHANGED <<fn, credentials, wf, find_mast, image_files, ledger, images, posts, run, idx,
                   base_attributes>>

\* lines 155-168: the row of the attempt; upload_result is returned
D_LedgerWrite ==
    /\ pc = "d_log"
    /\ LET log_data == DistLogData(image_files[idx], att, att.status) IN
       IF log_upload_raises(log_data)
          THEN /\ att' = att
               /\ pc' = "d_except"
               /\ UNCHANGED ledger
          ELSE /\ ledger' = log_upload(ledger, log_data)
               /\ att' = Return(Called(att, "log"), "logged", att.upload_result)
               /\ pc' = "d_return"
    /\ UNCHANGED <<fn, credentials, wf, find_mast, image_files, images, posts, run, idx,
                   base_attributes>>

\* lines 170-184: any exception of the try block: a failed row is built and
\* logged inside an inner try that swallows what log_upload raises
D_Except ==
    /\ pc = "d_except"
    /\ LET failed_data == create_failed_log_data(image_files[idx],
                                                 image_files[idx].filehash)
       IN IF log_upload_raises(failed_data)
             THEN /\ att' = Return(Called(att, "hash"), "exception", "None")
                  /\ UNCHANGED ledger
             ELSE /\ ledger' = log_upload(ledger, failed_data)
                  /\ att' = Return(Called(Called(att, "hash"), "log"),
                                   "exception", "None")
    /\ pc' = "d_return"
    /\ UNCHANGED <<fn, credentials, wf, find_mast, image_files, images, posts, run, idx,
                   base_attributes>>

\* lines 245-258: the counter incremented for a result
dist_counter(result) ==
    CASE result = "Skipped" -> "skipped"
      [] result = "updated_image" -> "updated"
      [] result \in {"failed_upload", "None"} -> "failed"
      [] result = "failed_update" -> "failed_update"
      [] OTHER -> "uploaded"

\* lines 245-258: the result is counted and the loop moves on
D_Count ==
    /\ pc = "d_return"
    /\ idx' = idx + 1
    /\ pc' = "loop"
    /\ att' = [NoAttempt EXCEPT !.rows0 = att.rows0,
                                !.file_hash = att.file_hash,
                                !.calls = att.calls,
                                !.outcome = att.outcome,
                                !.result = att.result,
                                !.counted = dist_counter(att.result)]
    /\ UNCHANGED <<fn, credentials, wf, find_mast, image_files, ledger, images, posts, run,
                   base_attributes>>

----------------------------------------------------------------------------
(* ToppbefaringUploader.sync_with_imagegrid (src/backup/toppbefaring.py)   *)

\* data of lines 422-427: 17 values, status "synced"
SyncData(file) ==
    <<file.name, file.gps, file.gps, "None", "None", "None", "None", "None",
      "None", "None", "None", "None", "None", file.filehash, now, now,
      "synced">>

\* lines 384-395: the folder is listed and the loop starts
S_FolderStart ==
    /\ wf = "sync"
    /\ pc \in {"start", "finished"}
    /\ run < MaxRuns
    /\ run' = run + 1
    /\ idx' = 1
    /\ pc' = "loop"
    /\ att' = NoAttempt
    /\ UNCHANGED <<fn, credentials, wf, find_mast, image_files, ledger, images, posts,
                   base_attributes>>

\* lines 397-434, one file: hash, ledger lookup, coordinates and the row
\* "synced" handed to log_upload, all inside one try whose handler counts an
\* error; the upload service is not asked
S_SyncFile ==
    /\ wf = "sync"
    /\ pc = "loop"
    /\ idx <= Len(image_files)
    /\ LET file == image_files[idx]
           a == [NoAttempt EXCEPT !.rows0 = Len(ledger),
                                  !.file_hash = file.filehash]
       IN  IF calculate_file_hash_raises(file)
           THEN /\ att' = Return(Called(a, "hash"), "exception", "None")
                /\ UNCHANGED ledger
           ELSE IF has_been_uploaded(ledger, file.filehash)
           THEN /\ att' = Return(Called(Called(a, "hash"), "lookup"),
                                 "skipped", "None")
                /\ UNCHANGED ledger
           ELSE IF log_upload_raises(SyncData(file))
           THEN /\ att' = Return(Called(Called(Called(a, "hash"), "lookup"), "gps"),
                                 "exception", "None")
                /\ UNCHANGED ledger
           ELSE /\ att' = Return(Called(Called(Called(Called(a, "hash"), "lookup"),
                                               "gps"), "log"),
                                 "logged", "synced")
                /\ ledger' = log_upload(ledger, SyncData(file))
    /\ idx' = idx + 1
    /\ pc' = "loop"
    /\ UNCHANGED <<fn, credentials, wf, find_mast, image_files, images, posts, run,
                   base_attributes>>

\* lines 436-441: the listing is exhausted
S_LoopEnd ==
    /\ wf = "sync"
    /\ pc = "loop"
    /\ idx > Len(image_files)
    /\ pc' = "finished"
    /\ UNCHANGED <<fn, credentials, wf, find_mast, image_files, ledger, images, posts, run, idx,
                   base_attributes, att>>

----------------------------------------------------------------------------
Next ==
    \/ T_FolderStart \/ T_LoopNext \/ T_LoopEnd \/ T_Identify
    \/ T_DedupCheck \/ T_ExistsCheck \/ T_GpsExtract \/ T_MastById
    \/ T_NearestMast \/ T_ExistsBranch \/ T_Transfer \/ T_IdCheck
    \/ T_MetadataUpdate \/ T_LedgerWrite \/ T_Except \/ T_Count
    \/ D_FolderStart \/ D_LoopNext \/ D_LoopEnd \/ D_ExistsCheck
    \/ D_Transfer \/ D_IdCheck \/ D_MetadataUpdate \/ D_LedgerWrite
    \/ D_Except \/ D_Count
    \/ S_FolderStart \/ S_SyncFile \/ S_LoopEnd

Spec == Init /\ [][Next]_vars

----------------------------------------------------------------------------
(* The services' functions on their own.  Each specification below starts  *)
(* from an input of the function and applies it; the batch workflows do    *)
(* not run.                                                                *)

\* the workflows at rest
Idle ==
    /\ credentials = [imagegrid |-> TRUE, arcgis |-> TRUE]
    /\ wf = "topp"
    /\ find_mast = TRUE
    /\ image_files = <<>>
    /\ ledger = <<>>
    /\ images = {}
    /\ posts = [h \in Hashes |-> 0]
    /\ run = 0
    /\ idx = 0
    /\ base_attributes = "None"
    /\ pc = "start"
    /\ att = NoAttempt

(* ArcGISService.find_nearest_mast, lines 296-328: the choice among the    *)
(* features the within-radius query returned.                              *)

\* UTM coordinates range over 0..MaxCoord
MaxCoord == 1

\* the within-radius query returns at most MaxMasts features
MaxMasts == 3

Coords == 0..MaxCoord

MastIds == <<"m1", "m2", "m3", "m4">>

\* a feature of the answer: with a geometry holding x and y, or without
MastFeatures ==
    [ID : {MastIds[i] : i \in 1..Len(MastIds)}, geometry : {"xy"},
     x : Coords, y : Coords]
    \cup [ID : {MastIds[i] : i \in 1..Len(MastIds)}, geometry : {"null"},
          x : {0}, y : {0}]

\* the answers of the query: the i-th feature has the i-th ID
MastLists ==
    UNION {{l \in [1..n -> MastFeatures] : \A i \in 1..n : l[i].ID = MastIds[i]}
           : n \in 0..MaxMasts}

\* the Euclidean distance between the target and the mast, kept as its
\* square (the order and the equality of distances are those of the squares)
Distance(target, mast) ==
    (target.x - mast.x) * (target.x - mast.x)
        + (target.y - mast.y) * (target.y - mast.y)

\* no feature chosen: nearest_mast = None, min_distance = inf
NoNearest == [index |-> 0, distance |-> 0]

\* lines 305-319: the loop over nearby_masts from position i on, `best` being
\* the position and the distance kept so far
RECURSIVE nearest_mast_loop(_, _, _, _)
nearest_mast_loop(target, nearby_masts, i, best) ==
    IF i > Len(nearby_masts) THEN best
    ELSE LET mast == nearby_masts[i]
             distance == Distance(target, mast)
         IN IF mast.geometry = "xy"
                  /\ (best.index = 0 \/ distance < best.distance)
               THEN nearest_mast_loop(target, nearby_masts, i + 1,
                                      [index |-> i, distance |-> distance])
               ELSE nearest_mast_loop(target, nearby_masts, i + 1, best)

\* variant of the choice that keeps the last of the features at the least
\* distance
nearest_of_last(target, nearby_masts) ==
    LET valid == {i \in 1..Len(nearby_masts) : nearby_masts[i].geometry = "xy"}
    IN IF valid = {} THEN NoNearest
       ELSE LET k == CHOOSE i \in valid :
                        /\ \A j \in valid : Distance(target, nearby_masts[i])
                                               <= Distance(target, nearby_masts[j])
                        /\ \A j \in valid :
                              Distance(target, nearby_masts[j])
                                  = Distance(target, nearby_masts[i]) => j <= i
            IN [index |-> k, distance |-> Distance(target, nearby_masts[k])]

\* lines 296-328: None for an empty answer, else the feature the loop kept
\* with its distance attached, None when the loop kept none
nearest_of(target, nearby_masts) ==
    IF Len(nearby_masts) = 0 THEN NoNearest
    ELSE nearest_mast_loop(target, nearby_masts, 1, NoNearest)

InitNearest ==
    /\ Idle
    /\ fn \in [op : {"find_nearest_mast"},
                target : [x : Coords, y : Coords],
                nearby_masts : MastLists,
                done : {FALSE}, result : {NoNearest}]

\* find_nearest_mast is applied to the answer of the query
FindNearestMast ==
    /\ fn.op = "find_nearest_mast"
    /\ ~fn.done
    /\ fn' = [fn EXCEPT !.done = TRUE,
                        !.result = nearest_of(fn.target, fn.nearby_masts)]
    /\ UNCHANGED sysvars

NextNearest == FindNearestMast

SpecNearest == InitNearest /\ [][NextNearest]_vars

(* ArcGISService.get_mast_attributes, lines 330-375, on features with     *)
(* their attribute fields.                                                 *)

\* three of the attribute fields of the layer (the others are read alike)
AttrFields == {"ID", "DRIFTSMERKING", "LINJENUMMER"}

\* a field holds a value, holds null, or is absent from the attributes
AttrValues == {"v", "null", "absent"}

\* the key of the result each field is copied to
FieldOf == [id |-> "ID", driftsmerking |-> "DRIFTSMERKING",
            linje_nummer |-> "LINJENUMMER"]

\* a feature handed to get_mast_attributes: None, or a feature with or
\* without 'attributes', whose 'geometry' is a point, null, empty or absent
AttributeInputs ==
    [present : BOOLEAN, has_attributes : BOOLEAN,
     attrs : [AttrFields -> AttrValues],
     geometry : {"xy", "null", "empty", "nokey"}]

\* the empty mapping {}
EmptyMapping == [k \in {} |-> "null"]

\* attrs.get(field): None for an absent field
attrs_get(attrs, field) ==
    IF attrs[field] = "absent" THEN "null" ELSE attrs[field]

\* line 337: mast_feature['geometry'] raises KeyError when the key is absent
mast_feature_geometry_raises(f) ==
    f.present /\ f.has_attributes /\ f.geometry = "nokey"

\* lines 334-375: {} without a feature, without 'attributes' or with a falsy
\* geometry; else the mapped fields and the geometry, None values removed
mast_attributes_of(f) ==
    IF ~f.present \/ ~f.has_attributes THEN EmptyMapping
    ELSE IF f.geometry # "xy" THEN EmptyMapping
    ELSE LET mast_attributes ==
                 [k \in DOMAIN FieldOf \cup {"geometry"} |->
                     IF k = "geometry" THEN f.geometry
                     ELSE attrs_get(f.attrs, FieldOf[k])]
         IN [k \in {k \in DOMAIN mast_attributes :
                        mast_attributes[k] # "null"} |-> mast_attributes[k]]

InitAttributes ==
    /\ Idle
    /\ fn \in [op : {"get_mast_attributes"},
                mast_feature : AttributeInputs,
                done : {FALSE}, raised : {FALSE}, result : {EmptyMapping}]

\* get_mast_attributes is applied to the feature
GetMastAttributes ==
    /\ fn.op = "get_mast_attributes"
    /\ ~fn.done
    /\ fn' = IF mast_feature_geometry_raises(fn.mast_feature)
                THEN [fn EXCEPT !.done = TRUE, !.raised = TRUE]
                ELSE [fn EXCEPT !.done = TRUE,
                                !.result = mast_attributes_of(fn.mast_feature)]
    /\ UNCHANGED sysvars

NextAttributes == GetMastAttributes

SpecAttributes == InitAttributes /\ [][NextAttributes]_vars

(* FindNearestService: get_decimal_from_dms, validate_coordinates and      *)
(* get_gps_from_image.  Angles are integers in units of 1/7200 degree, in  *)
(* which every value below is exact.                                       *)

\* units per degree
UnitsPerDegree == 3600 * 2

\* a rational of EXIF: (numerator, denominator)
DegPairs == [n : {0, 45, 90, 181}, d : {0, 1, 2}]
MinPairs == [n : {0, 30}, d : {1, 2}]
SecPairs == [n : {0, 18}, d : {1}]

\* the value under a GPS latitude/longitude tag: a triplet of rationals, a
\* triplet of plain numbers, something that is not a 3-element tuple, or a
\* triplet with a non-numeric component
ZeroPair == [n |-> 0, d |-> 1]
DmsValues ==
    [shape : {"rational"}, deg : DegPairs, min : MinPairs, sec : SecPairs]
    \cup [shape : {"plain"}, deg : {p \in DegPairs : p.d = 1},
          min : {p \in MinPairs : p.d = 1}, sec : SecPairs]
    \cup [shape : {"not_triplet", "non_numeric"}, deg : {ZeroPair},
          min : {ZeroPair}, sec : {ZeroPair}]

\* the tag is absent from the GPS data
NoDms == [shape |-> "absent", deg |-> ZeroPair, min |-> ZeroPair,
          sec |-> ZeroPair]

\* the value cannot be converted: not a triplet, a non-numeric component, or
\* a zero denominator
Malformed(dms) ==
    \/ dms.shape \in {"not_triplet", "non_numeric"}
    \/ dms.shape = "rational" /\ (dms.deg.d = 0 \/ dms.min.d = 0 \/ dms.sec.d = 0)

\* deg + min/60 + sec/3600 of a well-formed triplet, in units
DmsSum(dms) ==
    (dms.deg.n * UnitsPerDegree) \div dms.deg.d
        + (dms.min.n * (UnitsPerDegree \div 60)) \div dms.min.d
        + (dms.sec.n * (UnitsPerDegree \div 3600)) \div dms.sec.d

\* variant of get_decimal_from_dms that negates for 'S' only
get_decimal_from_dms_south_only(dms, ref) ==
    IF Malformed(dms) THEN 0
    ELSE IF ref = "S" THEN 0 - DmsSum(dms) ELSE DmsSum(dms)

\* get_decimal_from_dms: 0.0 for an unexpected format and for every error of
\* the conversion, else the sum, negated for ref 'S' or 'W'
get_decimal_from_dms(dms, ref) ==
    IF Malformed(dms) THEN 0
    ELSE IF ref \in {"S", "W"} THEN 0 - DmsSum(dms) ELSE DmsSum(dms)

\* abs()
Abs(v) == IF v < 0 THEN 0 - v ELSE v

\* abs(v) < 0.0001 degree, which is 0.72 unit
NearZero(v) == Abs(v) * 100 < UnitsPerDegree \div 100

\* variant of validate_coordinates that does not bound the latitude
validate_coordinates_lon_only(lat, lon) ==
    /\ 0 - 180 * UnitsPerDegree <= lon /\ lon <= 180 * UnitsPerDegree
    /\ ~ (NearZero(lat) /\ NearZero(lon))

\* validate_coordinates: both in range and not both within 0.0001 of 0
validate_coordinates(lat, lon) ==
    /\ 0 - 90 * UnitsPerDegree <= lat /\ lat <= 90 * UnitsPerDegree
    /\ 0 - 180 * UnitsPerDegree <= lon /\ lon <= 180 * UnitsPerDegree
    /\ ~ (NearZero(lat) /\ NearZero(lon))

\* (None, None)
NoGps == [none |-> TRUE, lat |-> 0, lon |-> 0]

\* what opening the image and loading its EXIF can give: the GPS data, no
\* EXIF, no GPS data, or an exception
ExifStates == {"gps", "no_exif", "no_gps", "raises"}

\* get_gps_from_image: (None, None) without EXIF or GPS data, on any
\* exception, without one of the two tags, and for coordinates that do not
\* validate; else the converted pair
get_gps_from_image(exif, gps_latitude, gps_latitude_ref, gps_longitude, gps_longitude_ref) ==
    IF exif # "gps" THEN NoGps
    ELSE IF gps_latitude = NoDms \/ gps_longitude = NoDms THEN NoGps
    ELSE LET lat == get_decimal_from_dms(gps_latitude, gps_latitude_ref)
             lon == get_decimal_from_dms(gps_longitude, gps_longitude_ref)
         IN IF ~validate_coordinates(lat, lon) THEN NoGps
            ELSE [none |-> FALSE, lat |-> lat, lon |-> lon]

InitGps ==
    /\ Idle
    /\ \/ fn \in [op : {"get_decimal_from_dms"}, dms : DmsValues,
                   ref : {"N", "S", "E", "W", "?"},
                   done : {FALSE}, result : {0}]
       \/ fn \in [op : {"get_gps_from_image"}, exif : {"gps"},
                   gps_latitude : DmsValues \cup {NoDms},
                   gps_latitude_ref : {"N", "S"},
                   gps_longitude : DmsValues \cup {NoDms},
                   gps_longitude_ref : {"E", "W"},
                   done : {FALSE}, result : {NoGps}, searched : {"None"}]
       \/ fn \in [op : {"get_gps_from_image"},
                   exif : ExifStates \ {"gps"},
                   gps_latitude : {NoDms}, gps_latitude_ref : {"N"},
                   gps_longitude : {NoDms}, gps_longitude_ref : {"E"},
                   done : {FALSE}, result : {NoGps}, searched : {"None"}]

\* get_decimal_from_dms is applied to a tag value and a reference
GetDecimalFromDms ==
    /\ fn.op = "get_decimal_from_dms"
    /\ ~fn.done
    /\ fn' = [fn EXCEPT !.done = TRUE,
                        !.result = get_decimal_from_dms(fn.dms, fn.ref)]
    /\ UNCHANGED sysvars

\* get_gps_from_image is applied to an image
GetGpsFromImage ==
    /\ fn.op = "get_gps_from_image"
    /\ ~fn.done
    /\ fn' = [fn EXCEPT
                 !.done = TRUE,
                 !.result = get_gps_from_image(fn.exif, fn.gps_latitude,
                                fn.gps_latitude_ref, fn.gps_longitude,
                                fn.gps_longitude_ref)]
    /\ UNCHANGED sysvars

\* `latitude and longitude` of the handler (uploadByObjektnumber.py line 70)
\* and `not latitude or not longitude` of find_nearest_mast (arcgis.py lines
\* 282-283): None and 0.0 are both falsy
coordinates_truthy(gps) == ~gps.none /\ gps.lat # 0 /\ gps.lon # 0

\* uploadByObjektnumber.py lines 63-76 with find_mast set and no feature
\* for the file-name number: the spatial query is issued only for a truthy
\* pair
NearestSearchForImage ==
    /\ fn.op = "get_gps_from_image"
    /\ fn.done
    /\ fn.searched = "None"
    /\ fn' = [fn EXCEPT !.searched = IF coordinates_truthy(fn.result)
                                        THEN "query" ELSE "no_query"]
    /\ UNCHANGED sysvars

NextGps == GetDecimalFromDms \/ GetGpsFromImage \/ NearestSearchForImage

SpecGps == InitGps /\ [][NextGps]_vars

----------------------------------------------------------------------------
(* ImageUploadTracker on its CSV file: log_upload and has_been_uploaded    *)

\* most data rows a tracking file of the model holds
MaxRows == 3

\* file hashes handed to the tracker: a hex digest with a letter in it, and a
\* digest made of decimal digits only
TrackerHashes == {"h1", "007"}

\* a field that read_csv parses as an integer (digits only), and the text
\* of that integer: leading zeros are gone
IsIntText(cell) == cell \in {"007", "7", "12"}

IntText(cell) == IF cell = "12" THEN "12" ELSE "7"

\* a field that read_csv parses as a number; "" is an absent field (NaN),
\* and the text of a float
IsNumText(cell) == cell \in {"007", "7", "7.0", "12", "12.0", ""}

FloatText(cell) ==
    IF cell = "" THEN ""
    ELSE IF cell \in {"12", "12.0"} THEN "12.0"
    ELSE "7.0"

\* the columns of the model whose fields can be numbers: the feature's ID
\* and the file hash
NumericColumns == {Col("objektnummer"), Col("filehash")}

\* a complete row of the 13 columns for a hash and a status: the row of a
\* success carries the feature's ID, the failed row carries None there
TrackerRow(filehash, status) ==
    [i \in 1..Len(get_columns) |->
        IF i = Col("filehash") THEN filehash
        ELSE IF i = Col("status") THEN status
        ELSE IF i = Col("filename") THEN FileNames[1]
        ELSE IF i = Col("objektnummer") /\ status = "ok" THEN "12"
        ELSE ""]

\* the rows a caller hands to log_upload: 13 values, or the 15 values of the
\* distribution workflow
TrackerData ==
    {TrackerRow("h1", "ok"), TrackerRow("007", "failed"),
     TrackerRow("h1", "ok") \o <<"", "">>}

\* where the model lets a line be cut: after its first field, or right
\* before its filehash field
CutPoints == {1, Col("filehash") - 1}

\* pd.read_csv raises EmptyDataError on a file of zero bytes
read_csv_raises(lines) == lines = <<>>

\* the frame read from a file whose header line is cut short lacks columns:
\* df['filehash'] raises KeyError (line 43) and pd.DataFrame([data],
\* columns=df.columns) raises ValueError (line 57)
columns_missing(lines) == lines # <<>> /\ lines[1] # get_columns

\* a line with fewer fields than the header is filled up with NaN
PadLine(line) ==
    [i \in 1..Len(get_columns) |-> IF i <= Len(line) THEN line[i] ELSE ""]

\* the dtype read_csv infers for column c from all its fields
column_dtype(rows, c) ==
    IF rows # <<>> /\ \A i \in 1..Len(rows) : IsIntText(rows[i][c])
    THEN "int64"
    ELSE IF \A i \in 1..Len(rows) : IsNumText(rows[i][c])
         THEN "float64"
         ELSE "object"

\* pd.read_csv(tracking_file, sep=';'): the data lines under the header,
\* each numeric column converted to its inferred dtype (shown by the text
\* the value has when compared or written back)
read_csv(lines) ==
    LET rows == [i \in 1..(Len(lines) - 1) |-> PadLine(lines[i + 1])]
    IN  [i \in 1..Len(rows) |->
            [c \in 1..Len(get_columns) |->
                IF c \notin NumericColumns THEN rows[i][c]
                ELSE IF column_dtype(rows, c) = "int64" THEN IntText(rows[i][c])
                ELSE IF column_dtype(rows, c) = "float64" THEN FloatText(rows[i][c])
                ELSE rows[i][c]]]

\* the lines df.to_csv writes: the header, then one line per row
to_csv(df) == <<get_columns>> \o df

\* tracking files found at construction: the header alone (written by
\* __init__), or a file an earlier run left with one row
InitialFiles ==
    {<<get_columns>>, <<get_columns, TrackerRow("h1", "ok")>>}

\* no call of the tracker is in progress
Callable == fn.pc \in {"idle", "returned", "raised", "looked_up", "interrupted"}

InitTracker ==
    /\ Idle
    /\ fn \in [op : {"tracker"}, pc : {"idle"}, tracking_file : InitialFiles,
               before : {<<>>}, df : {<<>>}, data : {<<>>}, i : {0},
               filehash : {""}, found : {FALSE}, returned : {{}}]

\* log_upload, lines 50-58: read the file, build the new frame
LogUploadRead ==
    /\ fn.op = "tracker" /\ Callable
    /\ Len(fn.tracking_file) - 1 < MaxRows
    /\ \E data \in TrackerData :
        IF \/ read_csv_raises(fn.tracking_file)
           \/ columns_missing(fn.tracking_file)
           \/ log_upload_raises(data)
        THEN fn' = [fn EXCEPT !.pc = "raised", !.data = data,
                              !.before = fn.tracking_file]
        ELSE fn' = [fn EXCEPT !.pc = "open", !.data = data,
                              !.before = fn.tracking_file,
                              !.df = log_upload(read_csv(fn.tracking_file), data)]
    /\ UNCHANGED sysvars

\* df.to_csv, line 61: the file is opened for writing, which empties it
LogUploadOpen ==
    /\ fn.op = "tracker" /\ fn.pc = "open"
    /\ fn' = [fn EXCEPT !.pc = "write", !.tracking_file = <<>>, !.i = 0]
    /\ UNCHANGED sysvars

\* df.to_csv, line 61: the next line reaches the file, whole or in part
LogUploadWriteLine ==
    /\ fn.op = "tracker" /\ fn.pc = "write"
    /\ fn.i < Len(to_csv(fn.df))
    /\ LET line == to_csv(fn.df)[fn.i + 1]
       IN  \/ fn' = [fn EXCEPT !.tracking_file = Append(@, line), !.i = @ + 1]
           \/ \E k \in CutPoints :
                fn' = [fn EXCEPT !.tracking_file = Append(@, SubSeq(line, 1, k)),
                                 !.pc = "partial"]
    /\ UNCHANGED sysvars

\* df.to_csv, line 61: the rest of a line written in part reaches the file
LogUploadFinishLine ==
    /\ fn.op = "tracker" /\ fn.pc = "partial"
    /\ fn' = [fn EXCEPT !.tracking_file =
                            Append(SubSeq(@, 1, Len(@) - 1), to_csv(fn.df)[fn.i + 1]),
                        !.i = @ + 1, !.pc = "write"]
    /\ UNCHANGED sysvars

\* log_upload returns after the last line, line 62
LogUploadReturn ==
    /\ fn.op = "tracker" /\ fn.pc = "write"
    /\ fn.i = Len(to_csv(fn.df))
    /\ fn' = [fn EXCEPT !.pc = "returned",
                        !.returned = @ \cup {fn.data[Col("filehash")]}]
    /\ UNCHANGED sysvars

\* the write of line 61 ends early (an I/O error raised to the caller, or the
\* process stopped); the file keeps what had reached it
LogUploadInterrupted ==
    /\ fn.op = "tracker" /\ fn.pc \in {"write", "partial"}
    /\ fn.i < Len(to_csv(fn.df))
    /\ fn' = [fn EXCEPT !.pc = "interrupted"]
    /\ UNCHANGED sysvars

\* has_been_uploaded, lines 40-46
HasBeenUploaded ==
    /\ fn.op = "tracker" /\ Callable
    /\ \E filehash \in TrackerHashes :
        IF read_csv_raises(fn.tracking_file) \/ columns_missing(fn.tracking_file)
        THEN fn' = [fn EXCEPT !.pc = "raised", !.filehash = filehash]
        ELSE fn' = [fn EXCEPT !.pc = "looked_up", !.filehash = filehash,
                              !.found = has_been_uploaded(read_csv(fn.tracking_file),
                                                          filehash)]
    /\ UNCHANGED sysvars

NextTracker ==
    \/ LogUploadRead
    \/ LogUploadOpen
    \/ LogUploadWriteLine
    \/ LogUploadFinishLine
    \/ LogUploadReturn
    \/ LogUploadInterrupted
    \/ HasBeenUploaded

SpecTracker == InitTracker /\ [][NextTracker]_vars

----------------------------------------------------------------------------
(* ToppbefaringUploader.cleanup_duplicate_entries                          *)

\* most rows of a tracking file handed to the cleanup
MaxLedger == 3

\* values of the updatetime column after pd.to_datetime(errors='coerce'):
\* 0 is NaT (a field that is no date), the others are instants in order
UpdateTimes == 0..2

\* statuses of the rows of a tracking file
RowStatuses == {"ok", "failed"}

\* a row of the frame read from the tracking file
CleanupRow(filehash, updatetime, status) ==
    [i \in 1..Len(get_columns) |->
        IF i = Col("filehash") THEN filehash
        ELSE IF i = Col("updatetime") THEN updatetime
        ELSE IF i = Col("uploadtime") THEN updatetime
        ELSE IF i = Col("status") THEN status
        ELSE IF i = Col("filename") THEN FileNames[1]
        ELSE ""]

CleanupRows ==
    {CleanupRow(h, t, st) : h \in Hashes, t \in UpdateTimes, st \in RowStatuses}

\* the frames the cleanup reads: every sequence of at most MaxLedger rows
CleanupFrames ==
    UNION {[1..n -> CleanupRows] : n \in 0..MaxLedger}

\* the orders df.sort_values('updatetime', ascending=False) can give: later
\* instants first, NaT last; the default sort is not stable, so rows of
\* equal updatetime come in any order
sort_values_descending(df) ==
    {p \in [1..Len(df) -> 1..Len(df)] :
        /\ \A i, j \in 1..Len(df) : i # j => p[i] # p[j]
        /\ \A i, j \in 1..Len(df) :
            i < j => df[p[i]][Col("updatetime")] >= df[p[j]][Col("updatetime")]}

\* the frame in the order p
Reordered(df, p) == [i \in 1..Len(df) |-> df[p[i]]]

\* position i of df holds the first row of its filehash
FirstOfHash(df, i) ==
    \A j \in 1..(i - 1) : df[j][Col("filehash")] # df[i][Col("filehash")]

\* position i of df holds the last row of its filehash
LastOfHash(df, i) ==
    \A j \in (i + 1)..Len(df) : df[j][Col("filehash")] # df[i][Col("filehash")]

RECURSIVE KeepRows(_, _, _)
\* the rows of df at the positions in `keep`, from position i on, in order
KeepRows(df, keep, i) ==
    IF i > Len(df) THEN <<>>
    ELSE IF i \in keep THEN <<df[i]>> \o KeepRows(df, keep, i + 1)
    ELSE KeepRows(df, keep, i + 1)

\* variant of drop_duplicates with keep='last'
drop_duplicates_keep_last(df) ==
    KeepRows(df, {i \in 1..Len(df) : LastOfHash(df, i)}, 1)

\* variant of drop_duplicates with keep=False: every row of a hash that
\* occurs more than once is dropped
drop_duplicates_keep_none(df) ==
    KeepRows(df, {i \in 1..Len(df) : FirstOfHash(df, i) /\ LastOfHash(df, i)}, 1)

\* variant of drop_duplicates that drops nothing
drop_duplicates_keep_all(df) ==
    KeepRows(df, 1..Len(df), 1)

\* df.drop_duplicates(subset='filehash', keep='first')
drop_duplicates(df) ==
    KeepRows(df, {i \in 1..Len(df) : FirstOfHash(df, i)}, 1)

\* the frames cleanup_duplicate_entries can write back for the frame df
cleanup_duplicate_entries(df) ==
    {drop_duplicates(Reordered(df, p)) : p \in sort_values_descending(df)}

InitCleanup ==
    /\ Idle
    /\ fn \in [op : {"cleanup_duplicate_entries"}, df : CleanupFrames,
               done : {FALSE}, df_cleaned : {<<>>}, removed_count : {0}]

\* lines 363-376: read, sort, drop, write back, count
CleanupDuplicateEntries ==
    /\ fn.op = "cleanup_duplicate_entries"
    /\ ~fn.done
    /\ \E df_cleaned \in cleanup_duplicate_entries(fn.df) :
        fn' = [fn EXCEPT !.done = TRUE, !.df_cleaned = df_cleaned,
                         !.removed_count = Len(fn.df) - Len(df_cleaned)]
    /\ UNCHANGED sysvars

NextCleanup == CleanupDuplicateEntries

SpecCleanup == InitCleanup /\ [][NextCleanup]_vars

----------------------------------------------------------------------------
(* upload_toppbefaring_image: combined attributes, imageinfo and log row   *)

\* keys of the attribute dictionaries the model follows
MergeKeys == {"Name", "driftsmerking", "linje_navn", "linje_nummer", "kommune", "id"}

\* the keys get_mast_attributes can put in its result (of MergeKeys)
MastKeys == {"id", "driftsmerking", "linje_nummer", "kommune"}

\* caller-supplied base attributes: each key absent ("absent") or holding
\* the caller's value "b"
BaseAttributes == [MergeKeys -> {"absent", "b"}]

\* resolved asset attributes: each key absent or holding the asset's value
\* "m"; the keys get_mast_attributes never sets are absent
MastAttributes ==
    {m \in [MergeKeys -> {"absent", "m"}] :
        \A k \in MergeKeys \ MastKeys : m[k] = "absent"}

\* variant of dict_update in which the left dictionary wins
dict_update_keep_left(d, other) ==
    [k \in MergeKeys |-> IF d[k] # "absent" THEN d[k] ELSE other[k]]

\* d.copy(); d.update(other): the keys of other replace those of d
dict_update(d, other) ==
    [k \in MergeKeys |-> IF other[k] # "absent" THEN other[k] ELSE d[k]]

\* d.get(key, default)
dict_get(d, key, default) == IF d[key] = "absent" THEN default ELSE d[key]

\* imageinfo of uploadByObjektnumber.py, lines 145-160: the fields taken
\* from the dictionaries
imageinfo_of(combined_attributes, mast_attributes) ==
    [filename      |-> dict_get(combined_attributes, "Name", ""),
     objektnummer  |-> dict_get(mast_attributes, "id", ""),
     linje_navn    |-> dict_get(combined_attributes, "linje_navn", ""),
     linje_id      |-> dict_get(combined_attributes, "linje_nummer", ""),
     driftsmerking |-> dict_get(combined_attributes, "driftsmerking", "")]

\* the key of the dictionaries each field of imageinfo is read from
ImageinfoKey ==
    [filename |-> "Name", objektnummer |-> "id", linje_navn |-> "linje_navn",
     linje_id |-> "linje_nummer", driftsmerking |-> "driftsmerking"]

\* the key each logged field of backup/toppbefaring.py (lines 123-132) is
\* read from
BackupLogKey == [linje_navn |-> "linje_navn", driftsmerking |-> "driftsmerking"]

InitCombine ==
    /\ Idle
    /\ fn \in [op : {"combine"}, base_attributes : BaseAttributes,
               mast_attributes : MastAttributes, done : {"no"},
               sent : {<<>>}, logged : {<<>>}]

\* uploadByObjektnumber.py, lines 136-189: combined attributes, imageinfo
\* sent by update_image_info, log_data built from imageinfo
CombineAndUpdate ==
    /\ fn.op = "combine" /\ fn.done = "no"
    /\ LET combined_attributes == dict_update(fn.base_attributes, fn.mast_attributes)
           imageinfo == imageinfo_of(combined_attributes, fn.mast_attributes)
       IN  fn' = [fn EXCEPT !.done = "current", !.sent = imageinfo,
                            !.logged = imageinfo]
    /\ UNCHANGED sysvars

\* backup/toppbefaring.py, lines 99-132: the combined attributes are sent
\* whole; the log row reads its fields from them
BackupCombineAndUpdate ==
    /\ fn.op = "combine" /\ fn.done = "no"
    /\ LET combined_attributes == dict_update(fn.base_attributes, fn.mast_attributes)
       IN  fn' = [fn EXCEPT !.done = "backup", !.sent = combined_attributes,
                            !.logged = [f \in DOMAIN BackupLogKey |->
                                dict_get(combined_attributes, BackupLogKey[f], "None")]]
    /\ UNCHANGED sysvars

NextCombine == CombineAndUpdate \/ BackupCombineAndUpdate

SpecCombine == InitCombine /\ [][NextCombine]_vars

----------------------------------------------------------------------------
(* ArcGISService.transform_gps_to_utm and transform_utm_to_gps             *)

\* latitudes and longitudes (degrees) inside the domain of UTM zone 33N;
\* the two ranges are disjoint, so an exchanged pair shows
GeoLatitudes == 58..63

GeoLongitudes == 8..15

\* Transformer.from_crs("EPSG:4326", "EPSG:32633", always_xy=True).transform:
\* takes (x = longitude, y = latitude), gives (x = easting, y = northing).
\* The projection itself is the library's; it stands here as a one-to-one
\* map that treats its two arguments differently
wgs84_to_utm(x, y) == [x |-> 2 * x + y, y |-> x + y]

\* Transformer.from_crs("EPSG:32633", "EPSG:4326", always_xy=True).transform:
\* takes (x = easting, y = northing), gives (x = longitude, y = latitude);
\* the inverse projection of the library
utm_to_wgs84(x, y) == [x |-> x - y, y |-> 2 * y - x]

\* transform_gps_to_utm(latitude, longitude): (easting, northing)
transform_gps_to_utm(latitude, longitude) ==
    LET p == wgs84_to_utm(longitude, latitude)
    IN  <<p.x, p.y>>

\* variant of transform_utm_to_gps that returns (longitude, latitude)
transform_utm_to_gps_xy(easting, northing) ==
    LET p == utm_to_wgs84(easting, northing)
    IN  <<p.x, p.y>>

\* transform_utm_to_gps(easting, northing): (latitude, longitude)
transform_utm_to_gps(easting, northing) ==
    LET p == utm_to_wgs84(easting, northing)
    IN  <<p.y, p.x>>

InitTransform ==
    /\ Idle
    /\ fn \in [op : {"transform"}, latitude : GeoLatitudes,
               longitude : GeoLongitudes, step : {"gps"},
               utm : {<<0, 0>>}, result : {<<0, 0>>}]

\* lines 34-50
TransformGpsToUtm ==
    /\ fn.op = "transform" /\ fn.step = "gps"
    /\ fn' = [fn EXCEPT !.step = "utm",
                        !.utm = transform_gps_to_utm(fn.latitude, fn.longitude)]
    /\ UNCHANGED sysvars

\* lines 70-86, on the pair the first transform returned
TransformUtmToGps ==
    /\ fn.op = "transform" /\ fn.step = "utm"
    /\ fn' = [fn EXCEPT !.step = "back",
                        !.result = transform_utm_to_gps(fn.utm[1], fn.utm[2])]
    /\ UNCHANGED sysvars

NextTransform == TransformGpsToUtm \/ TransformUtmToGps

SpecTransform == InitTransform /\ [][NextTransform]_vars

----------------------------------------------------------------------------
(* ArcGISService.get_access_token and _make_authenticated_request          *)

\* most queries one service object makes in the model
MaxQueries == 3

\* what the token endpoint can answer: a token, a body without 'token', or
\* a failed request
TokenResponses == {"token", "no_token", "error"}

\* what the data request can end in: a 200 answer, status 498, another
\* error status, or no response at all
DataResponses == {"ok", "498", "http_error", "connection_error"}

\* variant of token_valid that never trusts the cached token
token_valid_never(access_token, refresh_passed) == FALSE

\* line 93: a token is cached and its refresh time lies in the future
token_valid(access_token, refresh_passed) ==
    access_token # "None" /\ ~refresh_passed

\* the service object between queries
NoQuery ==
    [op |-> "query", pc |-> "idle", access_token |-> "None",
     refresh_passed |-> TRUE, has_credentials |-> TRUE, queries |-> 0,
     token_requests |-> <<>>, data_requests |-> <<>>]

InitAuth ==
    /\ Idle
    /\ \E c \in BOOLEAN : fn = [NoQuery EXCEPT !.has_credentials = c]

\* a query function calls _make_authenticated_request (lines 167, 197, 251)
StartQuery ==
    /\ fn.op = "query" /\ fn.pc \in {"idle", "returned", "raised"}
    /\ fn.queries < MaxQueries
    /\ fn' = [fn EXCEPT !.pc = "get_token", !.queries = @ + 1,
                        !.token_requests = <<>>, !.data_requests = <<>>]
    /\ UNCHANGED sysvars

\* get_access_token, lines 88-126, called at line 132 (pc "get_token") and
\* at line 149 (pc "refresh"): the cached token, or one token request; each
\* token request is recorded with the cache as it was when it was made
GetAccessToken ==
    /\ fn.op = "query" /\ fn.pc \in {"get_token", "refresh"}
    /\ LET next == IF fn.pc = "get_token" THEN "request" ELSE "retry"
       IN  IF token_valid(fn.access_token, fn.refresh_passed)
           THEN fn' = [fn EXCEPT !.pc = next]
           ELSE IF ~fn.has_credentials
           THEN fn' = [fn EXCEPT !.pc = "raised"]
           ELSE \E response \in TokenResponses :
                  LET made == Append(fn.token_requests,
                                     [access_token |-> fn.access_token,
                                      refresh_passed |-> fn.refresh_passed])
                  IN  IF response = "token"
                      THEN fn' = [fn EXCEPT !.pc = next, !.access_token = "token",
                                            !.refresh_passed = FALSE,
                                            !.token_requests = made]
                      ELSE fn' = [fn EXCEPT !.pc = "raised", !.token_requests = made]
    /\ UNCHANGED sysvars

\* lines 141-155: the data request; status 498 clears the cached token and
\* goes on to the refresh, every other failure is raised
DataRequest ==
    /\ fn.op = "query" /\ fn.pc = "request"
    /\ \E response \in DataResponses :
        fn' = [fn EXCEPT !.data_requests = Append(@, response),
                         !.pc = IF response = "ok" THEN "returned"
                                ELSE IF response = "498" THEN "refresh"
                                ELSE "raised",
                         !.access_token = IF response = "498" THEN "None" ELSE @]
    /\ UNCHANGED sysvars

\* lines 151-153: the one retry; its failure is raised to the caller
RetryRequest ==
    /\ fn.op = "query" /\ fn.pc = "retry"
    /\ \E response \in DataResponses :
        fn' = [fn EXCEPT !.data_requests = Append(@, response),
                         !.pc = IF response = "ok" THEN "returned" ELSE "raised"]
    /\ UNCHANGED sysvars

\* datetime.now() passes token_refresh_time
RefreshTimePasses ==
    /\ fn.op = "query" /\ fn.access_token # "None" /\ ~fn.refresh_passed
    /\ fn' = [fn EXCEPT !.refresh_passed = TRUE]
    /\ UNCHANGED sysvars

NextAuth ==
    \/ StartQuery
    \/ GetAccessToken
    \/ DataRequest
    \/ RetryRequest
    \/ RefreshTimePasses

SpecAuth == InitAuth /\ [][NextAuth]_vars

----------------------------------------------------------------------------
----------------------------------------------------------------------------
(* The temporary resized copy: ImageProcessingService.resize_image_with_exif *)
(* (src/services/image_processing.py), the transfer and the removal in the *)
(* two handlers, and the listing of a later upload_from_folder             *)

\* largest side of an image and largest target side, in the model's units
MaxSide == 2

\* max_width / max_height of resize_options; 0 stands for None
TargetSides == 0..MaxSide

ImageSides == 1..MaxSide

\* <base>_resized.jpg for the files of the folder
ResizedName ==
    [n \in {FileNames[i] : i \in 1..Len(FileNames)} |->
        CASE n = "1-a.jpg" -> "1-a_resized.jpg"
          [] n = "2-b.jpg" -> "2-b_resized.jpg"
          [] OTHER -> "3-c_resized.jpg"]

\* lines 29-55: the new size, or <<0, 0>> when no target is given
new_size(max_width, max_height, original_width, original_height) ==
    IF max_width = 0 /\ max_height = 0 THEN <<0, 0>>
    ELSE IF max_width # 0 /\ max_height # 0
       THEN IF max_width * original_height <= max_height * original_width
               THEN <<max_width, (original_height * max_width) \div original_width>>
               ELSE <<(original_width * max_height) \div original_height, max_height>>
    ELSE IF max_width # 0
       THEN <<max_width, (original_height * max_width) \div original_width>>
       ELSE <<(original_width * max_height) \div original_height, max_height>>

\* lines 29-55: True when the original path is returned without resizing: no
\* target, or the image is not larger than the target
keeps_original(max_width, max_height, original_width, original_height) ==
    LET s == new_size(max_width, max_height, original_width, original_height)
    IN  \/ max_width = 0 /\ max_height = 0
        \/ s[1] >= original_width /\ s[2] >= original_height

\* what opening, resizing and saving can end in: the copy saved; an
\* exception before anything is written; an exception inside save, after the
\* output file was created
ResizeOutcomes == {"saved", "raised", "raised_in_save"}

\* what upload_image can end in: the service's record, None, an exception
UploadOutcomes == {"record", "None", "raise"}

InitResize ==
    /\ Idle
    /\ fn \in [op : {"resize"},
               handler : {"topp", "dist"},
               image : {FileNames[i] : i \in 1..NumFiles},
               max_width : TargetSides, max_height : TargetSides,
               original_width : ImageSides, original_height : ImageSides,
               folder : {{FileNames[i] : i \in 1..NumFiles}},
               upload_path : {"None"},
               pc : {"resize"},
               listing : {{}}]

\* image_processing.py lines 23-82: the path handed to upload_image
ResizeImageWithExif ==
    /\ fn.op = "resize" /\ fn.pc = "resize"
    /\ \E outcome \in ResizeOutcomes :
          IF outcome = "raised"
             \/ keeps_original(fn.max_width, fn.max_height,
                               fn.original_width, fn.original_height)
             THEN fn' = [fn EXCEPT !.upload_path = fn.image, !.pc = "upload"]
          ELSE IF outcome = "raised_in_save"
             THEN fn' = [fn EXCEPT
                           !.folder = @ \cup {ResizedName[fn.image]},
                           !.upload_path = fn.image, !.pc = "upload"]
             ELSE fn' = [fn EXCEPT
                           !.folder = @ \cup {ResizedName[fn.image]},
                           !.upload_path = ResizedName[fn.image],
                           !.pc = "upload"]
    /\ UNCHANGED sysvars

\* uploadByObjektnumber.py lines 109-116 and upload_distribusjon_fra_folder.py
\* lines 79-95: a falsy result returns at once (after the failed_upload row
\* in the station handler); an exception goes to the handler's except block,
\* which logs and returns; neither touches the copy
UploadImage ==
    /\ fn.op = "resize" /\ fn.pc = "upload"
    /\ \E upload_result \in UploadOutcomes :
          fn' = [fn EXCEPT !.pc = IF upload_result = "record"
                                     THEN "remove" ELSE "returned"]
    /\ UNCHANGED sysvars

\* uploadByObjektnumber.py lines 118-123 and upload_distribusjon_fra_folder.py
\* lines 97-102: the copy is removed when one was made; an exception of
\* os.remove is printed as a warning; nothing after this touches the folder
RemoveResized ==
    /\ fn.op = "resize" /\ fn.pc = "remove"
    /\ \E removed \in BOOLEAN :
          IF fn.upload_path # fn.image /\ fn.upload_path \in fn.folder /\ removed
             THEN fn' = [fn EXCEPT !.folder = @ \ {fn.upload_path},
                                   !.pc = "returned"]
             ELSE fn' = [fn EXCEPT !.pc = "returned"]
    /\ UNCHANGED sysvars

\* uploadByObjektnumber.py lines 240-245: a later run lists every file of
\* the folder whose name ends in an image extension
ListFolder ==
    /\ fn.op = "resize" /\ fn.pc = "returned"
    /\ fn' = [fn EXCEPT !.listing = fn.folder, !.pc = "listed"]
    /\ UNCHANGED sysvars

NextResize == ResizeImageWithExif \/ UploadImage \/ RemoveResized \/ ListFolder

SpecResize == InitResize /\ [][NextResize]_vars

----------------------------------------------------------------------------
(* Properties                                                              *)

\* the attempt in progress made the call `name`
InCalls(name) == \E i \in 1..Len(att.calls) : att.calls[i] = name

\* the handler has returned for the file in progress
Returned == pc \in {"t_return", "d_return"}

\* the rows appended since the attempt began
NewRows == Len(ledger) - att.rows0

\* the ledger held a row for the file's hash when its attempt began
HadRow ==
    \E i \in 1..att.rows0 : ledger[i][Col("filehash")] = att.file_hash

\* C1: over all batch runs, whatever way earlier attempts ended, the upload
\* POST is sent at most once per content hash.
C1_AtMostOnePost == \A h \in Hashes : posts[h] <= 1

\* C1 for the Toppbefaring workflow alone: its POST is sent at most once per
\* content hash.
C1_ToppAtMostOnePost == wf = "topp" => C1_AtMostOnePost

\* a later Toppbefaring run attempts again a hash that was POSTed earlier and
\* left no row, and ends without a second POST
C1_ToppWitness ==
    /\ wf = "topp"
    /\ run > 1
    /\ pc = "t_return"
    /\ att.outcome # "skipped"
    /\ posts[att.file_hash] = 1
    /\ att.exist_in_imagegrid \in {"rec_id", "rec_noid"}
    /\ ~InCalls("post")

\* C2: a file whose own earlier attempt ended in failure is attempted again
\* when the batch is restarted: DedupCheck never skips a file on the strength
\* of that file's own failed row.
C2_FailedFileRetried ==
    ~ /\ wf = "topp"
      /\ pc = "t_return"
      /\ att.outcome = "skipped"
      /\ \E i \in 1..Len(ledger) :
            /\ ledger[i][Col("filename")] = image_files[idx].name
            /\ ledger[i][Col("filehash")] = att.file_hash
            /\ ledger[i][Col("status")] = "failed"

LastRow == ledger[Len(ledger)]

\* C4: a second run over the same folder adds no row to the ledger: from the
\* second run on, no step changes the ledger.
C4_SecondRunAddsNoRows == [][run >= 2 => ledger' = ledger]_vars

\* C5: every attempt that passes DedupCheck appends exactly one ledger row,
\* whichever step ended it.
C5_OneRowPerAttempt ==
    (Returned /\ att.outcome # "skipped") => NewRows = 1

\* C6: when a step of the attempt raises, the handler returns after appending
\* one row with status failed that carries the file's content hash.
C6_ExceptionLogsFailedRow ==
    (Returned /\ att.outcome = "exception")
        => /\ NewRows = 1
           /\ LastRow[Col("filehash")] = att.file_hash
           /\ LastRow[Col("status")] = "failed"

\* C7: when the transfer succeeded and the metadata update reports failure, a
\* row with status failed or failed_update is written for the file and the
\* uploaded image remains at the upload service.
C7_UpdateFailureLogged ==
    (Returned /\ InCalls("post") /\ att.update_result = "Update failed")
        => /\ NewRows = 1
           /\ LastRow[Col("filehash")] = att.file_hash
           /\ LastRow[Col("status")] \in {"failed", "failed_update"}
           /\ att.file_hash \in images

\* C8: when the exists check finds the content hash (here: with an id, and
\* the metadata update is accepted), the attempt transfers no bytes, sends the
\* metadata update for the returned id and records status updated_image in
\* the ledger.
C8_ExistingImageUpdated ==
    (Returned /\ att.exist_in_imagegrid = "rec_id" /\ att.update_result = "ok")
        => /\ ~InCalls("post")
           /\ InCalls("update")
           /\ att.image_id = att.file_hash
           /\ NewRows = 1
           /\ LastRow[Col("filehash")] = att.file_hash
           /\ LastRow[Col("status")] = "updated_image"

\* the attempt went through asset resolution with find_mast set and no
\* feature from the identifier lookup nor from the nearest search
NoFeatureResolved ==
    /\ wf = "topp"
    /\ pc = "t_return"
    /\ find_mast
    /\ InCalls("byid")
    /\ att.attributes = NoFeature
    /\ att.mast_attributes = EmptyAttributes

\* the attempt ended with the no-nearby-mast status: one row, no transfer, no
\* metadata update
EndedNoNearbyMast ==
    /\ att.outcome = "no_mast"
    /\ NewRows = 1
    /\ LastRow[Col("filehash")] = att.file_hash
    /\ LastRow[Col("status")] = "No nearby mast found"
    /\ ~InCalls("post")
    /\ ~InCalls("update")

IdentifiedId ==
    IF att.attributes.geometry = "xy" THEN att.attributes.ID ELSE ""

\* C10: when get_mast_by_id returns a feature, find_nearest_mast is not called
\* for the file, and the asset id sent in the metadata update and written to
\* the ledger row is that of the identified feature, with or without GPS.
C10_IdentifiedFeatureUsed ==
    (wf = "topp" /\ att.attributes # NoFeature)
        => /\ ~InCalls("nearest")
           /\ InCalls("update") => att.objektnummer = IdentifiedId
           /\ (pc = "t_return" /\ att.outcome = "logged")
                 => LastRow[Col("objektnummer")] = IdentifiedId

\* a photo with GPS and find_mast set whose number identifies a feature: the
\* row carries the identified feature's id
C10_Witness ==
    /\ wf = "topp"
    /\ find_mast
    /\ att.gps
    /\ pc = "t_return"
    /\ att.outcome = "logged"
    /\ att.attributes.ID = "m1"
    /\ att.attributes.geometry = "xy"
    /\ LastRow[Col("objektnummer")] = "m1"

\* C11: a failed feature-service request is an error, not "no feature": an
\* attempt during which a query by id or within the radius failed ends as
\* failed (through the exception handler), never with the no-nearby-mast
\* status and never by going on to the upload.
C11_QueryFailureEndsFailed ==
    (wf = "topp" /\ pc = "t_return" /\ att.query_failed)
        => /\ att.outcome = "exception"
           /\ LastRow[Col("status")] = "failed"

\* C12: an error raised for one file (here: the file cannot be read when its
\* hash is computed) never ends the run while files of the listing remain
\* that were not attempted.
C12_ErrorNeverEndsRun ==
    ~ (pc = "aborted" /\ idx < Len(image_files))

\* C13: with the credentials of the upload service or of the feature service
\* missing, the run stops with a configuration error before any file is
\* hashed, transferred or logged.
C13_MissingCredentialsAbort ==
    (~credentials.imagegrid \/ ~credentials.arcgis)
        => /\ att.calls = <<>>
           /\ ledger = <<>>
           /\ \A h \in Hashes : posts[h] = 0

\* the features of the answer that have coordinates
WithGeometry ==
    {i \in 1..Len(fn.nearby_masts) : fn.nearby_masts[i].geometry = "xy"}

\* C14: of the features the within-radius query returned, find_nearest_mast
\* returns the one at the least Euclidean distance from the projected point,
\* with that distance attached, the first in the order of the answer among
\* those at that distance; it returns None for an empty answer (and when no
\* feature of the answer has coordinates).
C14_NearestSelection ==
    (fn.op = "find_nearest_mast" /\ fn.done)
        => IF WithGeometry = {}
              THEN fn.result = NoNearest
              ELSE LET k == fn.result.index IN
                   /\ k \in WithGeometry
                   /\ fn.result.distance
                         = Distance(fn.target, fn.nearby_masts[k])
                   /\ \A j \in WithGeometry :
                         /\ fn.result.distance
                               <= Distance(fn.target, fn.nearby_masts[j])
                         /\ j < k => fn.result.distance
                                        < Distance(fn.target, fn.nearby_masts[j])

\* two features at the same least distance, a farther one before them: the
\* second of the answer is returned
C14_Witness ==
    /\ fn.op = "find_nearest_mast"
    /\ fn.done
    /\ Len(fn.nearby_masts) = 3
    /\ WithGeometry = {1, 2, 3}
    /\ Distance(fn.target, fn.nearby_masts[1]) = 2
    /\ Distance(fn.target, fn.nearby_masts[2]) = 1
    /\ Distance(fn.target, fn.nearby_masts[3]) = 1
    /\ fn.result.index = 2

\* C15: get_mast_attributes never raises; its result holds no null value; and
\* the result is the empty mapping for a feature that lacks a geometry (key
\* absent, null or empty) or lacks attributes.
C15_AttributesTotalAndNullFree ==
    (fn.op = "get_mast_attributes" /\ fn.done)
        => /\ ~fn.raised
           /\ \A k \in DOMAIN fn.result : fn.result[k] # "null"
           /\ (fn.mast_feature.geometry # "xy"
                   \/ ~fn.mast_feature.has_attributes)
                 => fn.result = EmptyMapping

\* get_gps_from_image has been applied
GpsDone == fn.op = "get_gps_from_image" /\ fn.done

\* the pair is valid: latitude within 90 degrees, longitude within 180, and
\* not both within 0.0001 degree of 0
ValidPair(lat, lon) ==
    /\ Abs(lat) <= 90 * UnitsPerDegree
    /\ Abs(lon) <= 180 * UnitsPerDegree
    /\ ~ (NearZero(lat) /\ NearZero(lon))

\* C16: a pair returned by get_gps_from_image is valid, and when the
\* converted coordinates of the two tags are not valid the result is
\* (None, None).
C16_ReturnedPairValid ==
    GpsDone
        => /\ ~fn.result.none => ValidPair(fn.result.lat, fn.result.lon)
           /\ (/\ fn.exif = "gps"
               /\ fn.gps_latitude # NoDms
               /\ fn.gps_longitude # NoDms
               /\ ~ValidPair(
                      get_decimal_from_dms(fn.gps_latitude,
                                           fn.gps_latitude_ref),
                      get_decimal_from_dms(fn.gps_longitude,
                                           fn.gps_longitude_ref)))
                 => fn.result.none

\* a well-formed latitude of 90.5 degrees with a valid longitude: no pair
C16_Witness ==
    /\ GpsDone
    /\ ~Malformed(fn.gps_latitude)
    /\ ~Malformed(fn.gps_longitude)
    /\ fn.gps_latitude # NoDms
    /\ get_decimal_from_dms(fn.gps_latitude, fn.gps_latitude_ref)
          = 181 * (UnitsPerDegree \div 2)
    /\ get_decimal_from_dms(fn.gps_longitude, fn.gps_longitude_ref)
          = 45 * UnitsPerDegree
    /\ fn.result.none

\* C17: get_gps_from_image never raises, and when the latitude value or the
\* longitude value is malformed the result is (None, None).
C17_MalformedGivesNone ==
    (GpsDone /\ (Malformed(fn.gps_latitude) \/ Malformed(fn.gps_longitude)))
        => fn.result.none

\* C18: for a triplet of rationals and for a triplet of plain numbers
\* get_decimal_from_dms returns deg + min/60 + sec/3600, negated exactly when
\* the reference is 'S' or 'W'.
C18_DmsToDecimal ==
    (fn.op = "get_decimal_from_dms" /\ fn.done /\ ~Malformed(fn.dms))
        => LET sum == (fn.dms.deg.n * UnitsPerDegree) \div fn.dms.deg.d
                      + (fn.dms.min.n * 120) \div fn.dms.min.d
                      + (fn.dms.sec.n * 2) \div fn.dms.sec.d
           IN fn.result = IF fn.ref = "S" \/ fn.ref = "W" THEN 0 - sum ELSE sum

\* 45 degrees 30/2 minutes 18 seconds West, as rationals: -45.255 degrees
C18_Witness ==
    /\ fn.op = "get_decimal_from_dms"
    /\ fn.done
    /\ fn.dms.shape = "rational"
    /\ fn.dms.deg = [n |-> 45, d |-> 1]
    /\ fn.dms.min = [n |-> 30, d |-> 2]
    /\ fn.dms.sec = [n |-> 18, d |-> 1]
    /\ fn.ref = "W"
    /\ fn.result = 0 - (45 * 7200 + 15 * 120 + 18 * 2)

\* C19: log_upload is atomic for readers: at every point of an append, an
\* interruption part-way through the write included, the tracking file holds
\* either the lines it held before the call or those lines followed by the
\* complete new row; never a partial row, never fewer rows than before
C19_AppendAtomic ==
    fn.op = "tracker" /\ fn.pc \in {"open", "write", "partial", "interrupted", "returned"}
        => \/ fn.tracking_file = fn.before
           \/ fn.tracking_file = Append(fn.before, fn.data)

\* C20: after log_upload has returned for a row with content hash H, every
\* later has_been_uploaded(H) on the tracker answers found = True
C20_AppendedRowVisible ==
    fn.op = "tracker" /\ fn.pc = "looked_up" /\ fn.filehash \in fn.returned
        => fn.found

\* the cleanup has returned
CleanupDone == fn.op = "cleanup_duplicate_entries" /\ fn.done

\* positions of the rows of a frame that carry the hash h
RowsOfHash(df, h) == {i \in 1..Len(df) : df[i][Col("filehash")] = h}

SuccessStatuses == {"ok", "new_image", "synced"}

\* positions of the rows of a frame that carry the hash h with a successful
\* status
SuccessRowsOfHash(df, h) ==
    {i \in RowsOfHash(df, h) : df[i][Col("status")] \in SuccessStatuses}

CollidingKeys ==
    {k \in MergeKeys : fn.base_attributes[k] # "absent" /\ fn.mast_attributes[k] # "absent"}

\* C23: in the metadata update, for every key present both in the
\* caller-supplied base attributes and in the resolved asset attributes,
\* whatever is sent and whatever is logged for that key is the asset's value
C23_AssetValueWins ==
    /\ fn.op = "combine" /\ fn.done = "current" =>
        \A f \in DOMAIN ImageinfoKey :
            ImageinfoKey[f] \in CollidingKeys =>
                /\ fn.sent[f] = fn.mast_attributes[ImageinfoKey[f]]
                /\ fn.logged[f] = fn.mast_attributes[ImageinfoKey[f]]
    /\ fn.op = "combine" /\ fn.done = "backup" =>
        /\ \A k \in CollidingKeys : fn.sent[k] = fn.mast_attributes[k]
        /\ \A f \in DOMAIN BackupLogKey :
            BackupLogKey[f] \in CollidingKeys =>
                fn.logged[f] = fn.mast_attributes[BackupLogKey[f]]

\* both dictionaries hold driftsmerking and linje_nummer: the asset's values
\* were sent and logged
C23_Witness ==
    /\ fn.op = "combine" /\ fn.done = "current"
    /\ {"driftsmerking", "linje_nummer"} \subseteq CollidingKeys
    /\ fn.sent.driftsmerking = "m" /\ fn.sent.linje_id = "m"
    /\ fn.logged.driftsmerking = "m"
    /\ fn.sent.linje_navn = "b"

C25_AtMostOneReauthentication ==
    fn.op = "query" =>
        /\ Len(fn.token_requests) <= 2
        /\ Len(fn.data_requests) <= 2
        /\ Len(fn.data_requests) = 2 => fn.data_requests[1] = "498"
        /\ \A i \in 1..Len(fn.token_requests) :
              \/ fn.token_requests[i].access_token = "None"
              \/ fn.token_requests[i].refresh_passed

\* a query that found no usable token, got one, was answered 498, got a
\* second token and was answered on the retry
C25_Witness ==
    /\ fn.op = "query" /\ fn.pc = "returned"
    /\ Len(fn.token_requests) = 2
    /\ fn.data_requests = <<"498", "ok">>

\* the row has one value per column of the tracking file, the given hash in
\* the filehash column and a status in the status column
RowFitsColumns(data, filehash) ==
    /\ Len(data) = Len(get_columns)
    /\ data[Col("filehash")] = filehash
    /\ Col("status") = Len(data)

\* C26: every row a workflow is about to hand to log_upload has exactly the
\* 13 fields of the tracking file's columns, in column order, with the
\* content hash in the filehash column and the status last
C26_RowsFitColumns ==
    /\ pc = "t_log" => RowFitsColumns(ToppLogData(image_files[idx], att), att.file_hash)
    /\ pc = "t_except" /\ ~calculate_file_hash_raises(image_files[idx])
          => RowFitsColumns(ToppFailedData(image_files[idx], image_files[idx].filehash),
                            image_files[idx].filehash)
    /\ pc = "d_log"
          => RowFitsColumns(DistLogData(image_files[idx], att, att.status), att.file_hash)
    /\ pc = "d_except"
          => RowFitsColumns(create_failed_log_data(image_files[idx],
                                                   image_files[idx].filehash),
                            image_files[idx].filehash)

\* the place of each call in the order content hash, ledger lookup, remote
\* exists check, GPS extraction, asset resolution, byte transfer (resize,
\* the upload's own exists check, POST), metadata update, ledger write
StepRank ==
    [hash |-> 1, lookup |-> 2, exists |-> 3, gps |-> 4, byid |-> 5,
     nearest |-> 5, resize |-> 6, upload_exists |-> 6, post |-> 6,
     update |-> 7, log |-> 8]

\* the place of the i-th call of the attempt; the hash the exception handler
\* computes again for its failed row belongs to the ledger write
RankAt(calls, i) ==
    IF calls[i] = "hash" /\ i > 1 THEN StepRank["log"] ELSE StepRank[calls[i]]

\* the calls that go to a remote service
RemoteCalls == {"exists", "byid", "nearest", "upload_exists", "post", "update"}

C28_AppendKeepsRows ==
    fn.op = "tracker" /\ fn.pc = "returned"
        => fn.tracking_file = Append(fn.before, fn.data)

C30_NoStationNoTransfer ==
    (wf = "dist" /\ base_attributes = "[]") => ~InCalls("post")

\* C31: the location sent in the metadata update and written to the ledger
\* is absent, the photo's own point, or the matched asset's position
\* converted to WGS84; the photo's degrees never go through the UTM to WGS84
\* conversion
C31_LocationNeverConvertedPhoto ==
    /\ (wf = "topp" /\ InCalls("update"))
          => LocationOf(att.gps, att.mast_attributes)
                \in {"None", "photo", "asset_wgs84"}
    /\ \A i \in 1..Len(ledger) :
          ledger[i][Col("Location")] \in {"None", "photo", "asset_wgs84"}

\* C32: when an attempt has ended, no resized copy made during it is left in
\* the folder, and the listing of a later run holds no such copy
C32_NoResizedCopyLeft ==
    (fn.op = "resize" /\ fn.pc \in {"returned", "listed"})
        => /\ ResizedName[fn.image] \notin fn.folder
           /\ ResizedName[fn.image] \notin fn.listing

\* C33: every coordinate pair that validate_coordinates accepts, a latitude
\* or longitude of exactly 0 included, is treated as present: with find_mast
\* set and no feature for the number, find_nearest_mast issues the spatial
\* query for it (stated for well-formed tags, where the pair is the
\* photo's real position)
C33_AcceptedPairIsSearched ==
    (/\ fn.op = "get_gps_from_image" /\ fn.searched # "None"
     /\ ~Malformed(fn.gps_latitude) /\ ~Malformed(fn.gps_longitude)
     /\ ~fn.result.none)
        => fn.searched = "query"

\* the file just counted had a row with its hash in the ledger before its
\* attempt began
CountedHadRow ==
    \E i \in 1..att.rows0 : ledger[i][Col("filehash")] = att.file_hash

\* C34: every file the loop has moved past was counted in one summary
\* counter, and it was counted as skipped only if its hash was in the ledger
\* before its attempt began
C34_SkippedOnlyIfTrackedBefore ==
    (wf \in {"topp", "dist"} /\ att.counted = "skipped") => CountedHadRow

\* C35: update_image_info is called in an attempt only after a non-empty
\* remote id was obtained in that attempt, from the exists check or from the
\* transfer (stated of the attempt up to its return, before the loop has
\* counted it)
C35_UpdateOnlyWithRemoteId ==
    (InCalls("update") /\ att.counted = "None")
        => /\ att.image_id # "None"
           /\ \/ (att.exist_in_imagegrid \notin {"None", "False"}
                  /\ att.image_id = get_id(att.exist_in_imagegrid, att.file_hash))
              \/ (InCalls("post")
                  /\ att.image_id = get_id(att.upload_result, att.file_hash))

\* a photo already at the service: the exists check gave its id and the
\* metadata update was called with it
C35_Witness ==
    /\ InCalls("update")
    /\ ~InCalls("post")
    /\ att.exist_in_imagegrid = "rec_id"
    /\ att.image_id = att.file_hash

\* a handler call is in progress or has just returned
InHandler ==
    pc \in {"t_identify", "t_dedup", "t_exists", "t_gps", "t_byid",
            "t_nearest", "t_branch", "t_transfer", "t_idcheck", "t_update",
            "t_log", "t_except", "t_return",
            "d_exists", "d_transfer", "d_idcheck", "d_update", "d_log",
            "d_except", "d_return"}

C37_EachFileOncePerRun ==
    /\ [][(wf \in {"topp", "dist"} /\ idx' # idx)
             => \/ idx' = idx + 1
                \/ (pc \in {"start", "finished", "aborted"} /\ idx' = 1)]_vars
    /\ []((wf \in {"topp", "dist"} /\ pc \in {"finished", "aborted"})
             => idx >= Len(image_files))

\* the content hashes that have a row in a frame
HashesOf(df) == {df[i][Col("filehash")] : i \in 1..Len(df)}

====
